---- MODULE Spec2Model ----
(***************************************************************************)
(* The MIB updater / OID resolution layer of sonic-snmpagent               *)
(* (src/sonic_ax_impl/mibs): the per-MIB updaters, the snapshots they      *)
(* build from the key-value store and the queries answered from them.      *)
(***************************************************************************)
EXTENDS Integers, Sequences, FiniteSets, TLC

VARIABLES
    updater,        \* the Updater this run constructs and drives
    phase,          \* "uninit" | "serving" | "failed" (the constructor raised)
    last,           \* the most recent call that wrote the store or the updater
    outcome,        \* how the most recent update_data ended: "none" | "ok" | "raise"
    arptable,       \* python_arptable.get_arp_table(): the rows, in file order
    APPL_DB,        \* the default route's ROUTE_TABLE entry, PORT_TABLE, the LAG tables
    ASIC_DB,        \* FDB entries and bridge ports
    COUNTERS_DB,    \* COUNTERS_PORT_NAME_MAP, COUNTERS_LAG_NAME_MAP, the COUNTERS rows
    arp_updater,    \* ArpUpdater:   arp_dest_map, arp_dest_list
    route_updater,  \* RouteUpdater: route_dest_map, route_dest_list
    fdb_updater,    \* FdbUpdater:   its identity maps and vlanmac_ifindex_map/_list
    SNMP_OVERLAY_DB,   \* the overlay rows under the prefix, one table per namespace
    overlay_updater,   \* RedisOidTreeUpdater: oid_list, oid_map
    if_updater,     \* InterfacesUpdater: its identity and LAG maps, if_counters
    completed,      \* history: the index left by the most recent update_data that returned
    answered,       \* history: what the value queries answered after the most recent update_data that returned
    evicted,        \* history: the most recent update_data dropped a SubID held before it
    walk,           \* the get-next walk made since the last write: [on, seen, done]
    STATE_DB,       \* CHASSIS_INFO|chassis 1 and the PSU_INFO|PSU i rows
    statedb_fault,  \* the reads of a PowerStatusHandler call, by position, at which the store fails
    psu_query,      \* the PowerStatusHandler call made since the last write, its reply
    xcvr_query,     \* the last transceiver sub-identifier computed
    db_conn,        \* Namespace.init_namespace_dbs(): the connections, the primary first
    ns_query        \* the Namespace call made on the stores as they are now, its result

vars == <<updater, phase, last, outcome, arptable, APPL_DB, ASIC_DB, COUNTERS_DB,
          arp_updater, route_updater, fdb_updater, SNMP_OVERLAY_DB, overlay_updater,
          if_updater, completed, answered, evicted, walk, STATE_DB, statedb_fault,
          psu_query, xcvr_query, db_conn, ns_query>>

----------------------------------------------------------------------------
(* Bounds of the model.                                                    *)

MaxArpRows == 2
MaxNexthops == 2
MaxFdbKeys == 2
MaxNamespaces == 2

----------------------------------------------------------------------------
(* Python values: None and optionals, dicts, tuples and their order.       *)

\* Optional values: None is the empty sequence, a value v is <<v>>.
None == << >>
Some(v) == <<v>>

\* Calls that may raise return [exc |-> name, val |-> value]; exc = "none" is a return.
Return(v) == [exc |-> "none", val |-> v]
Raise(e, v) == [exc |-> e, val |-> v]

EmptyDict == [k \in {} |-> 0]

\* d[k] = v
DictSet(d, k, v) == [x \in (DOMAIN d) \cup {k} |-> IF x = k THEN v ELSE d[x]]

\* d.get(k, None)
DictGet(d, k) == IF k \in DOMAIN d THEN Some(d[k]) ELSE None

Range(s) == {s[i] : i \in DOMAIN s}

Min(a, b) == IF a < b THEN a ELSE b

\* a < b on tuples of integers: the first differing component decides, and a
\* proper prefix is smaller.
TupleLess(a, b) ==
    \E i \in 1..(Min(Len(a), Len(b)) + 1) :
        /\ \A j \in 1..(i - 1) : a[j] = b[j]
        /\ \/ i > Len(a) /\ i <= Len(b)
           \/ i <= Len(a) /\ i <= Len(b) /\ a[i] < b[i]

\* bisect.bisect_right(a, x): lo = 0, hi = len(a); halve while lo < hi.
\* Indices are Python's (0-based); a[mid] is the sequence's element mid + 1.
RECURSIVE bisect_loop(_, _, _, _)
bisect_loop(a, x, lo, hi) ==
    IF lo < hi
    THEN LET mid == (lo + hi) \div 2
         IN  IF TupleLess(x, a[mid + 1])
             THEN bisect_loop(a, x, lo, mid)
             ELSE bisect_loop(a, x, mid + 1, hi)
    ELSE lo

\* The same search with bisect_left's comparison (a[mid] < x moves lo).
RECURSIVE bisect_left_loop(_, _, _, _)
bisect_left_loop(a, x, lo, hi) ==
    IF lo < hi
    THEN LET mid == (lo + hi) \div 2
         IN  IF TupleLess(a[mid + 1], x)
             THEN bisect_left_loop(a, x, mid + 1, hi)
             ELSE bisect_left_loop(a, x, lo, mid)
    ELSE lo

bisect_left(a, x) == bisect_left_loop(a, x, 0, Len(a))

bisect_right(a, x) == bisect_loop(a, x, 0, Len(a))

\* list.sort() on a list of tuples: insertion into an ascending list, an equal
\* element going after the ones already there.
RECURSIVE InsertSorted(_, _)
InsertSorted(s, x) ==
    IF s = << >> THEN <<x>>
    ELSE IF TupleLess(x, s[1]) THEN <<x>> \o s
    ELSE <<s[1]>> \o InsertSorted(Tail(s), x)

RECURSIVE SortFrom(_, _)
SortFrom(done, rest) ==
    IF rest = << >> THEN done
    ELSE SortFrom(InsertSorted(done, rest[1]), Tail(rest))

\* The list left in the order the loop appended it.
unsorted(s) == s

sort(s) == SortFrom(<< >>, s)

\* The get_next of ArpUpdater, RouteUpdater and FdbUpdater over the updater's list.
get_next(list, sub_id) ==
    LET right == bisect_right(list, sub_id)
    IN  IF right >= Len(list) THEN None ELSE Some(list[right + 1])

----------------------------------------------------------------------------
(* Text the store holds, and its conversions.                              *)

\* A decimal number is the sequence of its digits; int('') raises ValueError.
RECURSIVE DecimalValue(_, _)
DecimalValue(digits, acc) ==
    IF digits = << >> THEN acc
    ELSE DecimalValue(Tail(digits), acc * 10 + digits[1])

\* An IPv4 address in text is its dot-separated fields, each a decimal number.
\* tuple(int(bs) for bs in str(ip).split('.'))
ip2tuple(ip) == [i \in 1..Len(ip) |-> DecimalValue(ip[i], 0)]

\* ax_interface.util.ip2tuple_v4 does the same for the ARP table's addresses.
ip2tuple_v4(ip) == ip2tuple(ip)

\* A MAC address in text is six colon-separated fields of two hex digits.
\* mac_decimals: tuple(int(b, 16) for b in mac.split(':'))
mac_decimals(mac) == [i \in 1..Len(mac) |-> mac[i][1] * 16 + mac[i][2]]

\* An interface name is a prefix and the digits that follow it.
IfName(pfx, num) == [pfx |-> pfx, num |-> num]

\* swsssdk.port_util.get_index_from_str: the 1-based index of a name; None for a
\* name of no known style.
get_index_from_str(if_name) ==
    CASE if_name.pfx = "Ethernet"    -> Some(if_name.num + 1)
      [] if_name.pfx = "PortChannel" -> Some(if_name.num + 1000)
      [] if_name.pfx = "Ethernet-BP" -> Some(if_name.num + 9000)
      [] OTHER                       -> None

\* swsssdk.port_util.get_index: the same on a bytes name.
get_index(if_name) == get_index_from_str(if_name)

Ip(a, b, c, d) == <<a, b, c, d>>
MacA == <<<<7, 12>>, <<15, 14>>, <<9, 0>>, <<8, 0>>, <<9, 15>>, <<5, 12>>>>
MacB == <<<<0, 0>>, <<1, 10>>, <<2, 11>>, <<3, 12>>, <<4, 13>>, <<5, 14>>>>
Ip1 == Ip(<<1, 0>>, <<0>>, <<0>>, <<1>>)
Ip2 == Ip(<<1, 0>>, <<0>>, <<0>>, <<2>>)
Ip3 == Ip(<<9>>, <<2, 5, 5>>, <<0>>, <<7>>)

----------------------------------------------------------------------------
(* ArpUpdater (rfc1213.py).                                                *)

ArpRow(dev, mac, ip) == [Device |-> dev, HW |-> mac, IP |-> ip]

\* The rows the kernel's ARP table is drawn from: two rows for the same device
\* and address, rows that share a device, and a device that is no SONiC port.
ArpRows ==
    { ArpRow(IfName("Ethernet", 0), MacA, Ip1),
      ArpRow(IfName("Ethernet", 0), MacB, Ip1),
      ArpRow(IfName("Ethernet", 0), MacB, Ip2),
      ArpRow(IfName("Ethernet", 4), MacA, Ip1),
      ArpRow(IfName("docker", 0), MacA, Ip3) }

SeqsUpTo(S, n) == UNION {[1..k -> S] : k \in 0..n}

ArpTables == SeqsUpTo(ArpRows, MaxArpRows)

ArpIndex(map, list) == [arp_dest_map |-> map, arp_dest_list |-> list]

\* An index that keeps what the updater held before the refresh.
ArpKept(self) == self

\* update_data, lines 56-57: the refresh starts from an empty map and list.
ArpCleared(self) == ArpIndex(EmptyDict, << >>)

\* One row of the table, written to the map and not appended to the list.
ArpRowStepNoAppend(self, entry) ==
    LET if_index == get_index_from_str(entry.Device)
    IN  IF if_index = None THEN self
        ELSE ArpIndex(DictSet(self.arp_dest_map, <<if_index[1]>> \o ip2tuple_v4(entry.IP),
                              mac_decimals(entry.HW)),
                      self.arp_dest_list)

\* update_data, lines 59-75: one row of the table.
ArpRowStep(self, entry) ==
    LET if_index == get_index_from_str(entry.Device)
        mactuple == mac_decimals(entry.HW)
        iptuple == ip2tuple_v4(entry.IP)
    IN  IF if_index = None THEN self
        ELSE LET subid == <<if_index[1]>> \o iptuple
             IN  ArpIndex(DictSet(self.arp_dest_map, subid, mactuple),
                          Append(self.arp_dest_list, subid))

RECURSIVE ArpLoop(_, _)
ArpLoop(self, rows) ==
    IF rows = << >> THEN self ELSE ArpLoop(ArpRowStep(self, rows[1]), Tail(rows))

\* ArpUpdater.update_data on the table `rows`.
ArpUpdateData(self, rows) ==
    LET filled == ArpLoop(ArpCleared(self), rows)
    IN  Return(ArpIndex(filled.arp_dest_map, sort(filled.arp_dest_list)))

arp_dest(self, sub_id) == DictGet(self.arp_dest_map, sub_id)

----------------------------------------------------------------------------
(* RouteUpdater (rfc4292.py).                                              *)

\* The empty text: ''.split('.') is [''], and int('') raises ValueError.
IpEmpty == << << >> >>

IpParses(ip) == \A i \in 1..Len(ip) : ip[i] # << >>

\* The fields of the default route's nexthop string between its commas.
NexthopFields == {Ip1, Ip2, IpEmpty}

NexthopLists == SeqsUpTo(NexthopFields, MaxNexthops) \ {<< >>}

\* ROUTE_TABLE:0.0.0.0/0 : no such key, a row without the nexthop field, or a row
\* whose nexthop field splits into the given texts.
RouteEntries ==
    {None, Some([nexthop |-> None])} \cup {Some([nexthop |-> Some(l)]) : l \in NexthopLists}

RouteIndex(map, list) == [route_dest_map |-> map, route_dest_list |-> list]

\* ipaddress.ip_network("0.0.0.0/0"): network address, netmask and packed address.
IpnNetworkAddress == Ip(<<0>>, <<0>>, <<0>>, <<0>>)
IpnNetmask == Ip(<<0>>, <<0>>, <<0>>, <<0>>)
IpnPacked == <<0, 0, 0, 0>>

\* update_data, lines 27-28.
RouteCleared(self) == RouteIndex(EmptyDict, << >>)

\* update_data, lines 34-38: the loop over nexthops.split(','); it stops where
\* ip2tuple raises.
RECURSIVE RouteLoop(_, _)
RouteLoop(self, nhs) ==
    IF nhs = << >> THEN Return(self)
    ELSE IF ~IpParses(nhs[1]) THEN Raise("ValueError", self)
    ELSE LET sub_id == ip2tuple(IpnNetworkAddress) \o ip2tuple(IpnNetmask) \o ip2tuple(nhs[1])
         IN  RouteLoop(RouteIndex(DictSet(self.route_dest_map, sub_id, IpnPacked),
                                  Append(self.route_dest_list, sub_id)),
                       Tail(nhs))

\* RouteUpdater.update_data; `ent` is what get_all answers for the default route.
RouteUpdateData(self, ent) ==
    LET cleared == RouteCleared(self)
    IN  IF ent = None THEN Raise("UnavailableDataError", cleared)
        ELSE IF ent[1].nexthop = None THEN Raise("KeyError", cleared)
        ELSE LET filled == RouteLoop(cleared, ent[1].nexthop[1])
             IN  IF filled.exc # "none" THEN filled
                 ELSE Return(RouteIndex(filled.val.route_dest_map,
                                        sort(filled.val.route_dest_list)))

route_dest(self, sub_id) == DictGet(self.route_dest_map, sub_id)

----------------------------------------------------------------------------
(* The interface tables (mibs/__init__.py).                                *)

\* An object id in text: "oid:0x" and the hex digits after it.
OidText(hex) == <<"o", "i", "d", ":", "0", "x">> \o hex

\* s[6:]
Strip6(s) == SubSeq(s, 7, Len(s))

\* A PORT_TABLE row: each field is there or not.
PortRow(alias, admin_status, oper_status, mtu) ==
    [alias |-> alias, admin_status |-> admin_status, oper_status |-> oper_status,
     mtu |-> mtu]

Eth0 == IfName("Ethernet", 0)
Eth4 == IfName("Ethernet", 4)
Cpu == IfName("CPU", 0)
SaiP1 == <<"1", "0", "0", "1">>
SaiP2 == <<"1", "0", "0", "2">>
SaiP3 == <<"1", "0", "0", "3">>

\* COUNTERS_PORT_NAME_MAP, name -> oid text: the tables the run draws from.
PortNameMaps ==
    { (Eth0 :> OidText(SaiP1)) @@ (Eth4 :> OidText(SaiP2)) @@ (Cpu :> OidText(SaiP3)),
      (Eth0 :> OidText(SaiP1)) @@ (Cpu :> OidText(SaiP3)),
      (Cpu :> OidText(SaiP3)) }

\* re.match of SONIC_ETHERNET_RE_PATTERN or SONIC_ETHERNET_BP_RE_PATTERN.
MatchesPortPattern(if_name) == if_name.pfx \in {"Ethernet", "Ethernet-BP"}

\* port_util.get_interface_oid_map: name -> sai id and sai id -> name, the
\* "oid:0x" prefix cut off.
get_interface_oid_map(counters) ==
    LET names == counters.COUNTERS_PORT_NAME_MAP
    IN  [if_name_map |-> [n \in DOMAIN names |-> Strip6(names[n])],
         if_id_map |-> [i \in {Strip6(names[n]) : n \in DOMAIN names} |->
                            CHOOSE n \in DOMAIN names : Strip6(names[n]) = i]]

\* init_sync_d_interface_tables without the check of lines 244-250: the maps
\* are returned even when no port was found.
InterfaceTablesUnchecked(counters, appl) ==
    LET maps == get_interface_oid_map(counters)
        if_name_map == [n \in {m \in DOMAIN maps.if_name_map : MatchesPortPattern(m)} |->
                            maps.if_name_map[n]]
        if_id_map == [i \in {j \in DOMAIN maps.if_id_map : MatchesPortPattern(maps.if_id_map[j])} |->
                            maps.if_id_map[i]]
        indexed == {n \in DOMAIN if_name_map : get_index(n) # None}
    IN  Return([if_name_map |-> if_name_map,
                if_alias_map |-> [n \in DOMAIN if_name_map |-> n],
                if_id_map |-> if_id_map,
                oid_sai_map |-> [o \in {get_index(n)[1] : n \in indexed} |->
                                    if_name_map[CHOOSE n \in indexed : get_index(n)[1] = o]],
                oid_name_map |-> [o \in {get_index(n)[1] : n \in indexed} |->
                                    CHOOSE n \in indexed : get_index(n)[1] = o]])

\* init_sync_d_interface_tables(db_conn), lines 209-267.
init_sync_d_interface_tables(counters, appl) ==
    LET maps == get_interface_oid_map(counters)
        if_name_map == [n \in {m \in DOMAIN maps.if_name_map : MatchesPortPattern(m)} |->
                            maps.if_name_map[n]]
        if_id_map == [i \in {j \in DOMAIN maps.if_id_map : MatchesPortPattern(maps.if_id_map[j])} |->
                            maps.if_id_map[i]]
        indexed == {n \in DOMAIN if_name_map : get_index(n) # None}
        oid_sai_map == [o \in {get_index(n)[1] : n \in indexed} |->
                            if_name_map[CHOOSE n \in indexed : get_index(n)[1] = o]]
        oid_name_map == [o \in {get_index(n)[1] : n \in indexed} |->
                            CHOOSE n \in indexed : get_index(n)[1] = o]
        if_alias_map == [n \in DOMAIN if_name_map |->
                            IF appl.PORT_TABLE[n].alias = None THEN n
                            ELSE appl.PORT_TABLE[n].alias[1]]
    IN  IF DOMAIN oid_sai_map = {} THEN Raise("RuntimeError", None)
        ELSE Return([if_name_map |-> if_name_map, if_alias_map |-> if_alias_map,
                     if_id_map |-> if_id_map, oid_sai_map |-> oid_sai_map,
                     oid_name_map |-> oid_name_map])

----------------------------------------------------------------------------
(* FdbUpdater (rfc4363.py).                                                *)

BpA == <<"3", "a", "0", "1">>
BpB == <<"3", "a", "0", "2">>

\* An FDB key "ASIC_STATE:SAI_OBJECT_TYPE_FDB_ENTRY:{json}": whether the JSON part
\* decodes, and the fields it decodes to.
FdbKey(json_ok, vlan, mac, switch_id) ==
    [json_ok |-> json_ok, vlan |-> vlan, mac |-> mac, switch_id |-> switch_id]

\* An FDB key with the row get_all answers for it.
FdbEntry(key, bridge_port) ==
    [key |-> key, ent |-> [SAI_FDB_ENTRY_ATTR_BRIDGE_PORT_ID |-> bridge_port]]

\* The FDB entries the store is drawn from: two keys for the same VLAN and MAC
\* behind different bridge ports, a key that is no JSON, a row without the
\* bridge port attribute.
FdbEntries ==
    { FdbEntry(FdbKey(TRUE, <<1, 0, 0, 0>>, MacA, 1), Some(OidText(BpA))),
      FdbEntry(FdbKey(TRUE, <<2, 0>>, MacB, 1), Some(OidText(BpB))),
      FdbEntry(FdbKey(TRUE, <<1, 0, 0, 0>>, MacA, 2), Some(OidText(BpB))),
      FdbEntry(FdbKey(FALSE, << >>, MacA, 0), Some(OidText(BpA))),
      FdbEntry(FdbKey(TRUE, <<1, 0, 0, 0>>, MacB, 1), None) }

FdbTables == {t \in SUBSET FdbEntries : Cardinality(t) <= MaxFdbKeys}

\* The bridge port table, key "ASIC_STATE:SAI_OBJECT_TYPE_BRIDGE_PORT:oid:0x.."
\* (given by its oid text) -> row.
BridgeRow(port) == [SAI_BRIDGE_PORT_ATTR_PORT_ID |-> port]

BridgeTables ==
    { (OidText(BpA) :> BridgeRow(Some(OidText(SaiP1)))) @@
      (OidText(BpB) :> BridgeRow(Some(OidText(SaiP2)))),
      (OidText(BpA) :> BridgeRow(Some(OidText(SaiP1)))) @@
      (OidText(BpB) :> BridgeRow(None)) }

\* The orders in which keys() may enumerate a set of keys.
Enumerations(S) ==
    {e \in [1..Cardinality(S) -> S] : \A i, j \in DOMAIN e : e[i] = e[j] => i = j}

\* fdb_vlanmac, lines 9-10.
fdb_vlanmac(fdb) == <<DecimalValue(fdb.vlan, 0)>> \o mac_decimals(fdb.mac)

\* FdbUpdater.__init__, lines 15-17: the fields before reinit_data.
FdbNew ==
    [if_id_map |-> EmptyDict, prev_if_id_map |-> EmptyDict,
     invalid_port_oids |-> None, if_bpid_map |-> EmptyDict, invalid_if_bpid |-> {},
     vlanmac_ifindex_map |-> EmptyDict, vlanmac_ifindex_list |-> << >>]

\* reinit_data, lines 40-60: the bridge port id -> port id map and the bridge
\* ports found without the port id attribute.
BridgePortMap(bridge) ==
    LET mapped == {s \in DOMAIN bridge : bridge[s].SAI_BRIDGE_PORT_ATTR_PORT_ID # None}
    IN  [if_bpid_map |-> [b \in {Strip6(s) : s \in mapped} |->
                            Strip6(bridge[OidText(b)].SAI_BRIDGE_PORT_ATTR_PORT_ID[1])],
         invalid_if_bpid |-> {Strip6(s) : s \in (DOMAIN bridge) \ mapped}]

\* reinit_data, lines 41 and 56-60: the bridge ports a call logs the warning
\* for, those without the port id attribute that are not in invalid_if_bpid,
\* which line 41 has emptied; a call that raises in the loader logs none.
BridgePortWarnings(counters, appl, asic) ==
    LET tables == init_sync_d_interface_tables(counters, appl)
        invalid_if_bpid == {}
    IN  IF tables.exc # "none" THEN {}
        ELSE BridgePortMap(asic.bridge).invalid_if_bpid \ invalid_if_bpid

\* reinit_data without lines 33-35's reset of invalid_port_oids.
FdbReinitKeepsWarned(self, counters, appl, asic) ==
    LET tables == init_sync_d_interface_tables(counters, appl)
    IN  IF tables.exc # "none" THEN Raise(tables.exc, self)
        ELSE LET changed == self.prev_if_id_map # tables.val.if_id_map
                 bp == BridgePortMap(asic.bridge)
             IN  Return([self EXCEPT
                     !.if_id_map = tables.val.if_id_map,
                     !.prev_if_id_map = IF changed THEN tables.val.if_id_map ELSE @,
                     !.if_bpid_map = bp.if_bpid_map,
                     !.invalid_if_bpid = bp.invalid_if_bpid])

\* FdbUpdater.reinit_data, lines 22-60.
FdbReinitData(self, counters, appl, asic) ==
    LET tables == init_sync_d_interface_tables(counters, appl)
    IN  IF tables.exc # "none" THEN Raise(tables.exc, self)
        ELSE LET changed == self.prev_if_id_map # tables.val.if_id_map
                 bp == BridgePortMap(asic.bridge)
             IN  Return([self EXCEPT
                     !.if_id_map = tables.val.if_id_map,
                     !.prev_if_id_map = IF changed THEN tables.val.if_id_map ELSE @,
                     !.invalid_port_oids = IF changed THEN Some({}) ELSE @,
                     !.if_bpid_map = bp.if_bpid_map,
                     !.invalid_if_bpid = bp.invalid_if_bpid])

\* update_data, lines 68-69.
FdbCleared(self) ==
    [self EXCEPT !.vlanmac_ifindex_map = EmptyDict, !.vlanmac_ifindex_list = << >>]

\* update_data, lines 75-90: the loop over the keys in the order keys() gave them.
\* A key that is no JSON ends the loop (break); a row that does not resolve to a
\* port raises KeyError out of update_data.
RECURSIVE FdbLoop(_, _)
FdbLoop(self, strings) ==
    IF strings = << >> THEN Return(self)
    ELSE LET s == strings[1]
             attr == s.ent.SAI_FDB_ENTRY_ATTR_BRIDGE_PORT_ID
         IN  IF ~s.key.json_ok THEN Return(self)
             ELSE IF attr = None THEN Raise("KeyError", self)
             ELSE IF Strip6(attr[1]) \notin DOMAIN self.if_bpid_map THEN Raise("KeyError", self)
             ELSE IF self.if_bpid_map[Strip6(attr[1])] \notin DOMAIN self.if_id_map
                  THEN Raise("KeyError", self)
             ELSE LET port_id == self.if_bpid_map[Strip6(attr[1])]
                      vlanmac == fdb_vlanmac(s.key)
                  IN  FdbLoop([self EXCEPT
                                  !.vlanmac_ifindex_map =
                                      DictSet(@, vlanmac, get_index(self.if_id_map[port_id])),
                                  !.vlanmac_ifindex_list = Append(@, vlanmac)],
                              Tail(strings))

\* FdbUpdater.update_data, lines 62-91; fdb_strings is the keys() answer.
FdbUpdateData(self, fdb_strings) ==
    LET cleared == FdbCleared(self)
    IN  IF fdb_strings = << >> THEN Return(cleared)
        ELSE LET filled == FdbLoop(cleared, fdb_strings)
             IN  IF filled.exc # "none" THEN filled
                 ELSE Return([filled.val EXCEPT !.vlanmac_ifindex_list = sort(@)])

\* fdb_ifindex, lines 93-94: the stored value, which get_index gave.
fdb_ifindex(self, sub_id) ==
    IF sub_id \in DOMAIN self.vlanmac_ifindex_map
    THEN self.vlanmac_ifindex_map[sub_id] ELSE None

----------------------------------------------------------------------------
(* Namespace reads and RedisOidTreeUpdater (mibs/__init__.py).             *)

\* An overlay row: its type and its data, a decimal number in text.
OverlayRow(type, data) == [type |-> type, data |-> data]

\* Overlay keys are dotted OIDs under the updater's prefix.
OidKey1 == <<<<1>>, <<3>>, <<6>>, <<1>>, <<1, 0>>>>
OidKey2 == <<<<1>>, <<3>>, <<6>>, <<1>>, <<9>>>>

\* What one namespace's SNMP_OVERLAY_DB may hold under the prefix, key -> row.
OverlayTables ==
    { EmptyDict,
      (OidKey1 :> OverlayRow("COUNTER_32", <<7>>)),
      (OidKey1 :> OverlayRow("COUNTER_64", <<4, 2>>)) @@ (OidKey2 :> OverlayRow("COUNTER_32", <<1>>)),
      (OidKey2 :> OverlayRow("GAUGE_32", <<3>>)) }

\* ax_interface.util.oid2tuple(key, dot_prefix=False): the integers between the dots.
oid2tuple(key) == [i \in 1..Len(key) |-> DecimalValue(key[i], 0)]

\* Namespace.dbs_keys, lines 530-540, for one way the connections enumerate
\* their keys: `listing` holds each connection's keys() answer, in order.
RECURSIVE dbs_keys(_)
dbs_keys(listing) ==
    IF listing = << >> THEN << >> ELSE listing[1] \o dbs_keys(Tail(listing))

\* The answers keys() may give on each connection of dbs.
Listings(dbs) ==
    {l \in [1..Len(dbs) -> UNION {Enumerations(DOMAIN dbs[i]) : i \in 1..Len(dbs)}] :
        \A i \in 1..Len(dbs) : l[i] \in Enumerations(DOMAIN dbs[i])}

\* dict.update that keeps the value a field already has.
DictKeep(d, e) == [k \in (DOMAIN d) \cup (DOMAIN e) |-> IF k \in DOMAIN d THEN d[k] ELSE e[k]]

\* dict.update
DictUpdate(d, e) == [k \in (DOMAIN d) \cup (DOMAIN e) |-> IF k \in DOMAIN e THEN e[k] ELSE d[k]]

\* Namespace.dbs_get_all over the connections after the first only.
RECURSIVE GetAllNonHost(_, _)
GetAllNonHost(dbs, hash) ==
    IF Len(dbs) <= 1 THEN EmptyDict
    ELSE LET rest == GetAllNonHost(SubSeq(dbs, 1, Len(dbs) - 1), hash)
             db == dbs[Len(dbs)]
         IN  IF hash \in DOMAIN db
             THEN [k \in (DOMAIN rest) \cup (DOMAIN db[hash]) |->
                      IF k \in DOMAIN db[hash] THEN db[hash][k] ELSE rest[k]]
             ELSE rest

\* Namespace.dbs_get_all, lines 543-554: the rows of the connections that have the
\* key, merged in the connections' order.
RECURSIVE dbs_get_all(_, _)
dbs_get_all(dbs, hash) ==
    IF dbs = << >> THEN EmptyDict
    ELSE LET rest == dbs_get_all(SubSeq(dbs, 1, Len(dbs) - 1), hash)
             db == dbs[Len(dbs)]
         IN  IF hash \in DOMAIN db THEN DictUpdate(rest, db[hash]) ELSE rest

\* RedisOidTreeUpdater.__init__, lines 462-468: no index attribute is set.
OverlayNew == [oid_list |-> None, oid_map |-> None]

\* update_data, lines 496-504: the loop over the keys; a row of another type
\* raises ValueError after its OID was appended to oid_list.
RECURSIVE OverlayLoop(_, _, _)
OverlayLoop(self, dbs, keys) ==
    IF keys = << >> THEN Return(self)
    ELSE LET oid == oid2tuple(keys[1])
             appended == [self EXCEPT !.oid_list = Some(Append(@[1], oid))]
             value == dbs_get_all(dbs, keys[1])
         IN  IF value["type"] \in {"COUNTER_32", "COUNTER_64"}
             THEN OverlayLoop([appended EXCEPT
                                  !.oid_map = Some(DictSet(@[1], oid, DecimalValue(value["data"], 0)))],
                              dbs, Tail(keys))
             ELSE Raise("ValueError", appended)

\* RedisOidTreeUpdater.update_data, lines 483-506.
OverlayUpdateData(self, dbs, listing) ==
    LET filled == OverlayLoop([oid_list |-> Some(<< >>), oid_map |-> Some(EmptyDict)],
                              dbs, dbs_keys(listing))
    IN  IF filled.exc # "none" THEN filled
        ELSE Return([filled.val EXCEPT !.oid_list = Some(sort(@[1]))])

\* get_oidvalue, lines 508-511; an attribute never assigned raises AttributeError.
get_oidvalue(self, oid) ==
    IF self.oid_map = None THEN Raise("AttributeError", None)
    ELSE Return(DictGet(self.oid_map[1], oid))

----------------------------------------------------------------------------
(* Python integers of any width: little-endian base-2^16 limbs.            *)

Limb == 2^16

\* n * m + a, for a limb sequence n and small naturals m and a: limb i and the
\* carry into it. Each limb's product is bound to a name, to be computed once.
RECURSIVE BigMulAddFrom(_, _, _, _)
BigMulAddFrom(n, m, i, carry) ==
    IF i > Len(n) THEN (IF carry = 0 THEN << >> ELSE <<carry>>)
    ELSE CHOOSE r \in {<<t % Limb>> \o BigMulAddFrom(n, m, i + 1, t \div Limb) :
                          t \in {n[i] * m + carry}} : TRUE

BigMulAdd(n, m, a) == BigMulAddFrom(n, m, 1, a)

\* int(text) of a decimal text, as limbs. The running value is bound to a name
\* so that it is computed once for each digit.
RECURSIVE BigFromDecimal(_, _)
BigFromDecimal(digits, acc) ==
    IF digits = << >> THEN acc
    ELSE CHOOSE n \in {BigFromDecimal(Tail(digits), v) : v \in {BigMulAdd(acc, 10, digits[1])}} : TRUE

LimbAt(n, i) == IF i <= Len(n) THEN n[i] ELSE 0

\* a + b on limb sequences.
RECURSIVE BigAddFrom(_, _, _, _)
BigAddFrom(a, b, i, carry) ==
    IF i > Len(a) /\ i > Len(b)
    THEN (IF carry = 0 THEN << >> ELSE <<carry>>)
    ELSE CHOOSE r \in {<<t % Limb>> \o BigAddFrom(a, b, i + 1, t \div Limb) :
                          t \in {LimbAt(a, i) + LimbAt(b, i) + carry}} : TRUE

\* The limbs added one by one, no carry taken to the next limb.
BigAddNoCarry(a, b) ==
    [i \in 1..(IF Len(a) > Len(b) THEN Len(a) ELSE Len(b)) |-> (LimbAt(a, i) + LimbAt(b, i)) % Limb]

BigAdd(a, b) == BigAddFrom(a, b, 1, 0)

\* The value with no bits cut off.
NoMask(n) == n

\* value & 0x00000000ffffffff: the two low limbs, <<low 16 bits, high 16 bits>>.
Mask32(n) == CHOOSE r \in {<<LimbAt(v, 1), LimbAt(v, 2)>> : v \in {n}} : TRUE

----------------------------------------------------------------------------
(* LAG tables (mibs/__init__.py) and InterfacesUpdater (rfc1213.py).       *)

Pc1 == IfName("PortChannel", 1)
SaiLag1 == <<"2", "0", "0", "1">>

\* The LAG_TABLE and LAG_MEMBER_TABLE keys of APPL_DB the run draws from: each
\* LAG's row and the member names found under it.
LagConfigs ==
    { [LAG_TABLE |-> EmptyDict, LAG_MEMBER_TABLE |-> EmptyDict],
      [LAG_TABLE |-> (Pc1 :> PortRow(None, Some("up"), Some("down"), None)),
       LAG_MEMBER_TABLE |-> (Pc1 :> {Eth0})],
      [LAG_TABLE |-> (Pc1 :> PortRow(None, Some("up"), Some("down"), None)),
       LAG_MEMBER_TABLE |-> (Pc1 :> {Eth0, Eth4})],
      [LAG_TABLE |-> (Pc1 :> PortRow(None, Some("down"), None, None)),
       LAG_MEMBER_TABLE |-> (Pc1 :> {})] }

\* bytes.lstrip(chars): leading bytes are dropped while they are in chars.
RECURSIVE LStrip(_, _)
LStrip(s, chars) ==
    IF s # << >> /\ s[1] \in chars THEN LStrip(Tail(s), chars) ELSE s

\* The answers keys() may give for the member keys of each LAG.
MemberListings(appl) ==
    {l \in [DOMAIN appl.LAG_TABLE ->
              UNION {Enumerations(appl.LAG_MEMBER_TABLE[g]) : g \in DOMAIN appl.LAG_TABLE}] :
        \A g \in DOMAIN appl.LAG_TABLE : l[g] \in Enumerations(appl.LAG_MEMBER_TABLE[g])}

\* init_sync_d_lag_tables(db_conn), lines 311-358; lag_members gives, for each
\* LAG, its member names in the order keys() listed them. The hash
\* COUNTERS_LAG_NAME_MAP is read without blocking: get_all answers None when the
\* store has no such hash, and line 336 calls items() on the answer.
init_sync_d_lag_tables(appl, counters, lag_members) ==
    LET lag_entries == DOMAIN appl.LAG_TABLE
        lag_sai_map == IF "COUNTERS_LAG_NAME_MAP" \in DOMAIN counters
                       THEN Some(counters.COUNTERS_LAG_NAME_MAP) ELSE None
        names == lag_sai_map[1]
        indexed == {g \in lag_entries : get_index(g) # None /\ get_index(g) # Some(0)}
    IN  IF lag_entries = {}
        THEN Return([lag_name_if_name_map |-> EmptyDict, if_name_lag_name_map |-> EmptyDict,
                     oid_lag_name_map |-> EmptyDict, lag_sai_map |-> EmptyDict])
        ELSE IF lag_sai_map = None THEN Raise("AttributeError", None)
        ELSE Return(
            [lag_name_if_name_map |-> [g \in lag_entries |-> lag_members[g]],
             if_name_lag_name_map |->
                 [m \in UNION {Range(lag_members[g]) : g \in lag_entries} |->
                     CHOOSE g \in lag_entries : m \in Range(lag_members[g])],
             oid_lag_name_map |->
                 [o \in {get_index(g)[1] : g \in indexed} |->
                     CHOOSE g \in indexed : get_index(g)[1] = o],
             lag_sai_map |->
                 [g \in DOMAIN names |-> LStrip(names[g], {"o", "i", "d", ":", "0", "x"})]])

\* InterfacesUpdater before its constructor has run.
IfNew ==
    [if_name_map |-> EmptyDict, if_alias_map |-> EmptyDict, if_id_map |-> EmptyDict,
     oid_sai_map |-> EmptyDict, oid_name_map |-> EmptyDict,
     lag_name_if_name_map |-> EmptyDict, if_name_lag_name_map |-> EmptyDict,
     oid_lag_name_map |-> EmptyDict, if_counters |-> EmptyDict]

\* A refresh that leaves if_counters as it was.
IfUpdateDataKept(self, counters) == Return(self)

\* InterfacesUpdater.update_data, lines 111-118: the counter row of every port of
\* if_id_map, as the store holds it now.
IfUpdateData(self, counters) ==
    Return([self EXCEPT !.if_counters = [sai_id \in DOMAIN self.if_id_map |-> counters.COUNTERS[sai_id]]])

\* InterfacesUpdater.__init__, lines 94-109: the interface and LAG tables, then
\* update_data.
IfConstruct(appl, counters, lag_members) ==
    LET tables == init_sync_d_interface_tables(counters, appl)
        lags == init_sync_d_lag_tables(appl, counters, lag_members)
    IN  IF tables.exc # "none" THEN Raise(tables.exc, IfNew)
        ELSE IF lags.exc # "none" THEN Raise(lags.exc, IfNew)
        ELSE IfUpdateData(
                [if_name_map |-> tables.val.if_name_map,
                 if_alias_map |-> tables.val.if_alias_map,
                 if_id_map |-> tables.val.if_id_map,
                 oid_sai_map |-> tables.val.oid_sai_map,
                 oid_name_map |-> tables.val.oid_name_map,
                 lag_name_if_name_map |-> lags.val.lag_name_if_name_map,
                 if_name_lag_name_map |-> lags.val.if_name_lag_name_map,
                 oid_lag_name_map |-> lags.val.oid_lag_name_map,
                 if_counters |-> EmptyDict],
                counters)

\* A port's cached counter, a missing field read as 0.
PortCounterZero(self, sub_id, table_name) ==
    IF sub_id = None \/ sub_id[1] \notin DOMAIN self.oid_sai_map THEN Raise("KeyError", None)
    ELSE LET sai_id == self.oid_sai_map[sub_id[1]]
         IN  IF sai_id \notin DOMAIN self.if_counters
                \/ table_name \notin DOMAIN self.if_counters[sai_id]
             THEN Return(Some(<<0, 0>>))
             ELSE Return(Some(Mask32(BigFromDecimal(self.if_counters[sai_id][table_name], << >>))))

\* A port's counter read from the COUNTERS row the store holds at the query.
PortCounterLive(self, sub_id, table_name) ==
    IF sub_id = None \/ sub_id[1] \notin DOMAIN self.oid_sai_map THEN Raise("KeyError", None)
    ELSE LET row == COUNTERS_DB.COUNTERS[self.oid_sai_map[sub_id[1]]]
         IN  IF table_name \notin DOMAIN row THEN Return(None)
             ELSE Return(Some(Mask32(BigFromDecimal(row[table_name], << >>))))

\* get_counter, lines 144-156: a port's cached counter, cut to 32 bits; None when
\* the row lacks the field.
PortCounter(self, sub_id, table_name) ==
    IF sub_id = None \/ sub_id[1] \notin DOMAIN self.oid_sai_map THEN Raise("KeyError", None)
    ELSE LET sai_id == self.oid_sai_map[sub_id[1]]
         IN  IF sai_id \notin DOMAIN self.if_counters THEN Return(None)
             ELSE IF table_name \notin DOMAIN self.if_counters[sai_id] THEN Return(None)
             ELSE Return(Some(Mask32(BigFromDecimal(self.if_counters[sai_id][table_name], << >>))))

\* get_counter, lines 137-139: the members' counters added up; a member without a
\* value makes the addition raise TypeError.
RECURSIVE LagSum(_, _, _, _)
LagSum(self, members, table_name, counter_value) ==
    IF members = << >> THEN Return(counter_value)
    ELSE CHOOSE r \in
            {IF c.exc # "none" THEN c
             ELSE IF c.val = None THEN Raise("TypeError", None)
             ELSE LagSum(self, Tail(members), table_name, BigAdd(counter_value, c.val[1])) :
                c \in {PortCounter(self, get_index(members[1]), table_name)}} : TRUE

\* InterfacesUpdater.get_counter, lines 130-156; sub_id is an optional index.
get_counter(self, sub_id, table_name) ==
    IF sub_id # None /\ sub_id[1] \in DOMAIN self.oid_lag_name_map
    THEN LET total == LagSum(self, self.lag_name_if_name_map[self.oid_lag_name_map[sub_id[1]]],
                             table_name, << >>)
         IN  IF total.exc # "none" THEN total ELSE Return(Some(Mask32(total.val)))
    ELSE PortCounter(self, sub_id, table_name)

\* get_if_range, lines 164-168, as a set.
get_if_range(self) == (DOMAIN self.oid_sai_map) \cup (DOMAIN self.oid_lag_name_map)

\* _get_if_entry, lines 170-181: the row the store holds now for the LAG or port.
get_if_entry(self, appl, sub_id) ==
    IF sub_id \in DOMAIN self.oid_lag_name_map
    THEN (IF self.oid_lag_name_map[sub_id] \in DOMAIN appl.LAG_TABLE
          THEN Return(appl.LAG_TABLE[self.oid_lag_name_map[sub_id]])
          ELSE Return(PortRow(None, None, None, None)))
    ELSE IF sub_id \notin DOMAIN self.oid_name_map THEN Raise("KeyError", None)
    ELSE Return(appl.PORT_TABLE[self.oid_name_map[sub_id]])

\* status_map, lines 189-192.
status_map == ("up" :> 1) @@ ("down" :> 2)

\* The status looked up with no default for a state status_map does not hold.
StatusCodeNoDefault(field) ==
    LET state == IF field = None THEN "down" ELSE field[1]
    IN  IF state \in DOMAIN status_map THEN status_map[state] ELSE 0

\* status_map.get(entry.get(key, b"down"), status_map[b"down"]), lines 194-199;
\* field is the row's optional value under key.
StatusCode(field) ==
    LET state == IF field = None THEN "down" ELSE field[1]
    IN  IF state \in DOMAIN status_map THEN status_map[state] ELSE status_map["down"]

\* get_admin_status, lines 201-206.
get_admin_status(self, appl, sub_id) ==
    LET entry == get_if_entry(self, appl, sub_id)
    IN  IF entry.exc # "none" THEN entry ELSE Return(StatusCode(entry.val.admin_status))

\* get_oper_status, lines 208-213.
get_oper_status(self, appl, sub_id) ==
    LET entry == get_if_entry(self, appl, sub_id)
    IN  IF entry.exc # "none" THEN entry ELSE Return(StatusCode(entry.val.oper_status))

\* get_mtu, lines 215-221.
get_mtu(self, appl, sub_id) ==
    LET entry == get_if_entry(self, appl, sub_id)
    IN  IF entry.exc # "none" THEN entry
        ELSE Return(IF entry.val.mtu = None THEN 0 ELSE DecimalValue(entry.val.mtu[1], 0))

----------------------------------------------------------------------------
(* Namespace: the loaders run over several connections (mibs/__init__.py). *)

MaxConnections == 3

\* Namespace.get_non_host_dbs with every connection kept.
AllDbs(dbs) == dbs

\* Namespace.get_non_host_dbs, lines 556-568: the single connection, or every
\* connection but the first.
get_non_host_dbs(dbs) == IF Len(dbs) = 1 THEN dbs ELSE Tail(dbs)

\* init_sync_d_interface_tables, lines 251-255: the warning about incoherent
\* names is logged when the filtered maps differ in size.
InterfaceTablesWarn(tables) ==
    \/ Cardinality(DOMAIN tables.if_id_map) < Cardinality(DOMAIN tables.if_name_map)
    \/ Cardinality(DOMAIN tables.oid_sai_map) < Cardinality(DOMAIN tables.if_name_map)

\* The maps of init_sync_d_interface_tables before any connection is read.
NoInterfaceTables ==
    [if_name_map |-> EmptyDict, if_alias_map |-> EmptyDict, if_id_map |-> EmptyDict,
     oid_sai_map |-> EmptyDict, oid_name_map |-> EmptyDict]

\* Namespace.init_namespace_sync_d_interface_tables, lines 585-595: the loop over
\* the connections, each result merged into the maps; a loader that raises ends it.
RECURSIVE NsInterfaceLoop(_, _)
NsInterfaceLoop(dbs, acc) ==
    IF dbs = << >> THEN Return(acc)
    ELSE LET ns == init_sync_d_interface_tables(dbs[1].COUNTERS_DB, dbs[1].APPL_DB)
         IN  IF ns.exc # "none" THEN ns
             ELSE NsInterfaceLoop(Tail(dbs),
                    [if_name_map |-> DictUpdate(acc.if_name_map, ns.val.if_name_map),
                     if_alias_map |-> DictUpdate(acc.if_alias_map, ns.val.if_alias_map),
                     if_id_map |-> DictUpdate(acc.if_id_map, ns.val.if_id_map),
                     oid_sai_map |-> DictUpdate(acc.oid_sai_map, ns.val.oid_sai_map),
                     oid_name_map |-> DictUpdate(acc.oid_name_map, ns.val.oid_name_map)])

\* Namespace.init_namespace_sync_d_interface_tables, lines 571-597.
init_namespace_sync_d_interface_tables(dbs) ==
    NsInterfaceLoop(get_non_host_dbs(dbs), NoInterfaceTables)

\* init_sync_d_lag_tables, lines 340-349: the member names of one LAG from the
\* answer of keys(), which is None or a list.
lag_member_names(lag_members) == IF lag_members = None THEN << >> ELSE lag_members[1]

\* The maps of init_sync_d_lag_tables before any connection is read.
NoLagTables ==
    [lag_name_if_name_map |-> EmptyDict, if_name_lag_name_map |-> EmptyDict,
     oid_lag_name_map |-> EmptyDict, lag_sai_map |-> EmptyDict]

\* Namespace.init_namespace_sync_d_lag_tables, lines 613-621: the loop over the
\* connections; answers[i] holds what keys() answered for each LAG of dbs[i].
RECURSIVE NsLagLoop(_, _, _)
NsLagLoop(dbs, answers, acc) ==
    IF dbs = << >> THEN Return(acc)
    ELSE LET ns == init_sync_d_lag_tables(dbs[1].APPL_DB, dbs[1].COUNTERS_DB,
                       [g \in DOMAIN answers[1] |-> lag_member_names(answers[1][g])])
         IN  IF ns.exc # "none" THEN ns
             ELSE NsLagLoop(Tail(dbs), Tail(answers),
                    [lag_name_if_name_map |->
                         DictUpdate(acc.lag_name_if_name_map, ns.val.lag_name_if_name_map),
                     if_name_lag_name_map |->
                         DictUpdate(acc.if_name_lag_name_map, ns.val.if_name_lag_name_map),
                     oid_lag_name_map |->
                         DictUpdate(acc.oid_lag_name_map, ns.val.oid_lag_name_map),
                     lag_sai_map |-> DictUpdate(acc.lag_sai_map, ns.val.lag_sai_map)])

\* Namespace.init_namespace_sync_d_lag_tables, lines 599-623.
init_namespace_sync_d_lag_tables(dbs, answers) ==
    NsLagLoop(get_non_host_dbs(dbs), answers, NoLagTables)

\* queue_table(sai_id), lines 88-93: the key of a queue's counter row.
queue_table(sai_id) == <<"COUNTERS:">> \o sai_id

\* queue_key(port_index, queue_index), lines 95-96: the text "<port>:<queue>",
\* kept as the pair of its two numbers.
queue_key(port_index, queue_index) == <<port_index, queue_index>>

\* init_sync_d_queue_tables, lines 409-410, with every list left in the order
\* the loop appended it.
QueuesAsAppended(port_queue_list_map) == port_queue_list_map

\* init_sync_d_queue_tables, lines 409-410: every port's list of queue indexes
\* is sorted.
sort_queues(port_queue_list_map) ==
    [p \in DOMAIN port_queue_list_map |->
        LET sorted == sort([j \in DOMAIN port_queue_list_map[p] |-> <<port_queue_list_map[p][j]>>])
        IN  [j \in DOMAIN sorted |-> sorted[j][1]]]

\* init_sync_d_queue_tables, lines 382-397: the loop over the items of the queue
\* name map, in the order the dict yields them. A queue name is "<port>:<queue>"
\* with the name of a front-panel port.
RECURSIVE QueueLoop(_, _, _)
QueueLoop(counters, order, acc) ==
    IF order = << >> THEN acc
    ELSE LET queue_name == order[1]
             sai_id == counters.COUNTERS_QUEUE_NAME_MAP[queue_name]
             port_index == get_index_from_str(queue_name.port)[1]
             queue_stat_name == queue_table(sai_id)
             queue_stat == IF queue_stat_name \in DOMAIN counters.COUNTERS
                           THEN Some(counters.COUNTERS[queue_stat_name]) ELSE None
         IN  QueueLoop(counters, Tail(order),
                [port_queues_map |->
                     DictUpdate(acc.port_queues_map,
                                (queue_key(port_index, queue_name.queue) :> sai_id)),
                 queue_stat_map |->
                     IF queue_stat # None
                     THEN DictUpdate(acc.queue_stat_map, (queue_stat_name :> queue_stat[1]))
                     ELSE acc.queue_stat_map,
                 port_queue_list_map |->
                     IF port_index \in DOMAIN acc.port_queue_list_map
                     THEN [acc.port_queue_list_map EXCEPT
                              ![port_index] = Append(@, queue_name.queue)]
                     ELSE DictUpdate(acc.port_queue_list_map,
                                     (port_index :> <<queue_name.queue>>))])

\* The maps of init_sync_d_queue_tables before any queue is read.
NoQueueTables ==
    [port_queues_map |-> EmptyDict, queue_stat_map |-> EmptyDict,
     port_queue_list_map |-> EmptyDict]

\* init_sync_d_queue_tables(db_conn), lines 360-412; order is the order in which
\* the queue name map yields its items.
init_sync_d_queue_tables(counters, order) ==
    LET maps == QueueLoop(counters, order, NoQueueTables)
    IN  IF DOMAIN maps.port_queues_map = {} THEN Raise("RuntimeError", None)
        ELSE IF DOMAIN maps.queue_stat_map = {} THEN Raise("RuntimeError", None)
        ELSE Return([maps EXCEPT !.port_queue_list_map = sort_queues(@)])

\* Namespace.init_namespace_sync_d_queue_tables, lines 665-672: the loop over
\* the connections; orders[i] is the order of the queue name map of dbs[i].
RECURSIVE NsQueueLoop(_, _, _)
NsQueueLoop(dbs, orders, acc) ==
    IF dbs = << >> THEN Return(acc)
    ELSE LET ns == init_sync_d_queue_tables(dbs[1].COUNTERS_DB, orders[1])
         IN  IF ns.exc # "none" THEN ns
             ELSE NsQueueLoop(Tail(dbs), Tail(orders),
                    [port_queues_map |->
                         DictUpdate(acc.port_queues_map, ns.val.port_queues_map),
                     queue_stat_map |->
                         DictUpdate(acc.queue_stat_map, ns.val.queue_stat_map),
                     port_queue_list_map |->
                         DictUpdate(acc.port_queue_list_map, ns.val.port_queue_list_map)])

\* Namespace.init_namespace_sync_d_queue_tables, lines 654-674.
init_namespace_sync_d_queue_tables(dbs, orders) ==
    NsQueueLoop(get_non_host_dbs(dbs), orders, NoQueueTables)

\* dict.update in a loop: the maps of a sequence merged in order.
RECURSIVE UpdateAll(_)
UpdateAll(maps) ==
    IF maps = << >> THEN EmptyDict
    ELSE DictUpdate(maps[1], UpdateAll(Tail(maps)))

\* init_sync_d_rif_tables(db_conn), lines 270-282, on the map that
\* port_util.get_rif_port_map answers for the connection.
init_sync_d_rif_tables(rif_port_map) ==
    IF DOMAIN rif_port_map = {}
    THEN [rif_port_map |-> EmptyDict, port_rif_map |-> EmptyDict]
    ELSE [rif_port_map |-> rif_port_map,
          port_rif_map |-> [p \in Range(rif_port_map) |->
                               CHOOSE r \in DOMAIN rif_port_map : rif_port_map[r] = p]]

\* init_sync_d_vlan_tables(db_conn), lines 285-308, on the map that
\* port_util.get_vlan_interface_oid_map answers for the connection.
init_sync_d_vlan_tables(vlan_name_map) ==
    LET indexed == {s \in DOMAIN vlan_name_map : get_index(vlan_name_map[s]) # None}
    IN  [vlan_name_map |-> vlan_name_map,
         oid_sai_map |-> [o \in {get_index(vlan_name_map[s])[1] : s \in indexed} |->
                             CHOOSE s \in indexed : get_index(vlan_name_map[s])[1] = o],
         oid_name_map |-> [o \in {get_index(vlan_name_map[s])[1] : s \in indexed} |->
                             vlan_name_map[CHOOSE s \in indexed :
                                              get_index(vlan_name_map[s])[1] = o]]]

\* Namespace.init_namespace_sync_d_rif_tables, lines 625-636.
init_namespace_sync_d_rif_tables(dbs) ==
    LET ns == [i \in DOMAIN get_non_host_dbs(dbs) |->
                  init_sync_d_rif_tables(get_non_host_dbs(dbs)[i].rif_port_map)]
    IN  [rif_port_map |-> UpdateAll([i \in DOMAIN ns |-> ns[i].rif_port_map]),
         port_rif_map |-> UpdateAll([i \in DOMAIN ns |-> ns[i].port_rif_map])]

\* Namespace.init_namespace_sync_d_vlan_tables, lines 638-652.
init_namespace_sync_d_vlan_tables(dbs) ==
    LET ns == [i \in DOMAIN get_non_host_dbs(dbs) |->
                  init_sync_d_vlan_tables(get_non_host_dbs(dbs)[i].vlan_name_map)]
    IN  [vlan_name_map |-> UpdateAll([i \in DOMAIN ns |-> ns[i].vlan_name_map]),
         oid_sai_map |-> UpdateAll([i \in DOMAIN ns |-> ns[i].oid_sai_map]),
         oid_name_map |-> UpdateAll([i \in DOMAIN ns |-> ns[i].oid_name_map])]

\* Namespace.dbs_get_bridge_port_map, lines 676-685, on the maps that
\* port_util.get_bridge_port_map answers for the connections.
dbs_get_bridge_port_map(dbs) ==
    UpdateAll([i \in DOMAIN get_non_host_dbs(dbs) |-> get_non_host_dbs(dbs)[i].if_br_oid_map])

----------------------------------------------------------------------------
(* PowerStatusHandler (mibs/vendor/cisco/ciscoEntityFruControlMIB.py).     *)

MaxPsus == 2

PSU_PRESENCE_OK == "true"
PSU_STATUS_OK == "true"

\* STATE_DB rows, every field optional: CHASSIS_INFO|chassis 1 holds psu_num as
\* decimal text, PSU_INFO|PSU i holds presence and status.
ChassisRow(psu_num) == [psu_num |-> psu_num]
PsuRow(presence, status) == [presence |-> presence, status |-> status]

\* get_chassis_data, lines 29-36: (psu_num,), the empty text for a missing field.
get_chassis_data(chassis_info) ==
    <<IF chassis_info.psu_num = None THEN << >> ELSE chassis_info.psu_num[1]>>

\* get_psu_data, lines 38-45: (presence, status), '' for a missing field.
get_psu_data(psu_info) ==
    <<IF psu_info.presence = None THEN "" ELSE psu_info.presence[1],
      IF psu_info.status = None THEN "" ELSE psu_info.status[1]>>

\* statedb.get_all at the n-th read of a handler call: it raises when the store
\* fails at that read, and returns the row otherwise.
statedb_get_all(fault, n, row) ==
    IF n \in fault THEN Raise("ConnectionError", None) ELSE Return(row)

\* The row of PSU_INFO|PSU psu_index; a key the store does not hold reads as a row
\* without fields.
psu_info_table(statedb, psu_index) ==
    IF psu_index \in DOMAIN statedb.psu THEN statedb.psu[psu_index] ELSE PsuRow(None, None)

\* _getPsuNum, lines 58-67; int('') raises ValueError.
_getPsuNum(statedb, fault, n) ==
    LET chassis_info == statedb_get_all(fault, n, statedb.chassis)
    IN  IF chassis_info.exc # "none" THEN chassis_info
        ELSE LET psu_num == get_chassis_data(chassis_info.val)
             IN  IF psu_num[1] = << >> THEN Raise("ValueError", None)
                 ELSE Return(DecimalValue(psu_num[1], 0))

\* _getPsuPresence, lines 69-78.
_getPsuPresence(statedb, fault, n, psu_index) ==
    LET psu_info == statedb_get_all(fault, n, psu_info_table(statedb, psu_index))
    IN  IF psu_info.exc # "none" THEN psu_info
        ELSE Return(get_psu_data(psu_info.val)[1] = PSU_PRESENCE_OK)

\* _getPsuStatus, lines 80-89.
_getPsuStatus(statedb, fault, n, psu_index) ==
    LET psu_info == statedb_get_all(fault, n, psu_info_table(statedb, psu_index))
    IN  IF psu_info.exc # "none" THEN psu_info
        ELSE Return(get_psu_data(psu_info.val)[2] = PSU_STATUS_OK)

\* _getPsuIndex with the exception of _getPsuNum left to the caller.
_getPsuIndexUncaught(statedb, fault, sub_id) ==
    IF sub_id = << >> \/ Len(sub_id) > 1 THEN Return(None)
    ELSE LET psu_index == sub_id[1]
             psu_num == _getPsuNum(statedb, fault, 1)
         IN  IF psu_num.exc # "none" THEN psu_num
             ELSE IF psu_index < 1 \/ psu_index > psu_num.val THEN Return(None)
             ELSE Return(Some(psu_index))

\* _getPsuIndex, lines 91-111: the optional index of a one-component SubID within
\* 1..psu_num; None when _getPsuNum raises.
_getPsuIndex(statedb, fault, sub_id) ==
    IF sub_id = << >> \/ Len(sub_id) > 1 THEN Return(None)
    ELSE LET psu_index == sub_id[1]
             psu_num == _getPsuNum(statedb, fault, 1)
         IN  IF psu_num.exc # "none" THEN Return(None)
             ELSE IF psu_index < 1 \/ psu_index > psu_num.val THEN Return(None)
             ELSE Return(Some(psu_index))

\* Python's truth of an optional integer: None and 0 are false.
Truthy(psu_index) == psu_index # None /\ psu_index[1] # 0

\* PowerStatusHandler.get_next, lines 113-132: (1,) for the empty SubID, then the
\* next index up to psu_num.
PsuGetNext(statedb, fault, sub_id) ==
    IF sub_id = << >> THEN Return(Some(<<1>>))
    ELSE LET psu_index == _getPsuIndex(statedb, fault, sub_id)
             psu_num == _getPsuNum(statedb, fault, 2)
         IN  IF psu_index.exc # "none" THEN psu_index
             ELSE IF psu_num.exc # "none" THEN Return(None)
             ELSE IF Truthy(psu_index.val) /\ psu_index.val[1] + 1 <= psu_num.val
             THEN Return(Some(<<psu_index.val[1] + 1>>))
             ELSE Return(None)

\* getPsuStatus that reads the status before it looks at the presence.
getPsuStatusFirst(statedb, fault, sub_id) ==
    LET psu_index == _getPsuIndex(statedb, fault, sub_id)
    IN  IF psu_index.exc # "none" THEN psu_index
        ELSE IF ~Truthy(psu_index.val) THEN Return(None)
        ELSE LET psu_status == _getPsuStatus(statedb, fault, 3, psu_index.val[1])
                 psu_presence == _getPsuPresence(statedb, fault, 2, psu_index.val[1])
             IN  IF psu_status.exc # "none" \/ psu_presence.exc # "none" THEN Return(None)
                 ELSE IF psu_status.val THEN Return(Some(2))
                 ELSE IF psu_presence.val THEN Return(Some(7))
                 ELSE Return(Some(8))

\* PowerStatusHandler.getPsuStatus, lines 134-168: 2 ok, 7 failed, 8 missing.
getPsuStatus(statedb, fault, sub_id) ==
    LET psu_index == _getPsuIndex(statedb, fault, sub_id)
    IN  IF psu_index.exc # "none" THEN psu_index
        ELSE IF ~Truthy(psu_index.val) THEN Return(None)
        ELSE LET psu_presence == _getPsuPresence(statedb, fault, 2, psu_index.val[1])
             IN  IF psu_presence.exc # "none" THEN Return(None)
                 ELSE IF psu_presence.val
                 THEN LET psu_status == _getPsuStatus(statedb, fault, 3, psu_index.val[1])
                      IN  IF psu_status.exc # "none" THEN Return(None)
                          ELSE IF psu_status.val THEN Return(Some(2))
                          ELSE Return(Some(7))
                 ELSE Return(Some(8))

----------------------------------------------------------------------------
(* Transceiver sub-identifiers (mibs/__init__.py).                         *)

MaxIfIndex == 8

\* SENSOR_PART_ID_MAP, lines 29-44.
SENSOR_PART_ID_MAP ==
    ("temperature" :> 1) @@ ("voltage" :> 2)
    @@ ("rx1power" :> 11) @@ ("rx2power" :> 21) @@ ("rx3power" :> 31) @@ ("rx4power" :> 41)
    @@ ("tx1bias" :> 12) @@ ("tx2bias" :> 22) @@ ("tx3bias" :> 32) @@ ("tx4bias" :> 42)
    @@ ("tx1power" :> 13) @@ ("tx2power" :> 23) @@ ("tx3power" :> 33) @@ ("tx4power" :> 43)

\* IFINDEX_SUB_ID_MULTIPLIER, line 61.
IFINDEX_SUB_ID_MULTIPLIER == 1000

\* The interface index taken as the transceiver's sub-identifier.
TransceiverSubIdPlain(ifindex) == <<ifindex>>

\* get_transceiver_sub_id, lines 426-439.
get_transceiver_sub_id(ifindex) == <<ifindex * IFINDEX_SUB_ID_MULTIPLIER>>

\* get_transceiver_sensor_sub_id, lines 441-459; a sensor key the map does not
\* hold raises KeyError.
get_transceiver_sensor_sub_id(ifindex, sensor) ==
    LET transceiver_oid == get_transceiver_sub_id(ifindex)[1]
    IN  IF sensor \notin DOMAIN SENSOR_PART_ID_MAP THEN Raise("KeyError", None)
        ELSE Return(<<transceiver_oid + SENSOR_PART_ID_MAP[sensor]>>)

----------------------------------------------------------------------------
(* The store and the updaters as a state machine.                          *)

IndexUpdaters == {"arp", "route", "fdb"}

Updaters == IndexUpdaters \cup {"if", "overlay", "psu", "xcvr"}

PortNames == {Eth0, Eth4, Cpu}

PortTable0 == [n \in PortNames |-> PortRow(None, Some("up"), Some("up"), Some(<<9, 1, 0, 0>>))]

\* The PORT_TABLE rows Ethernet0 may have.
PortRows ==
    { PortRow(None, Some("up"), Some("up"), Some(<<9, 1, 0, 0>>)),
      PortRow(None, Some("down"), Some("down"), Some(<<9, 1, 0, 0>>)),
      PortRow(None, Some("up"), None, None),
      PortRow(None, Some("testing"), Some("up"), Some(<<1, 5, 0, 0>>)),
      PortRow(None, None, Some("dormant"), None) }

IN_OCTETS == "SAI_PORT_STAT_IF_IN_OCTETS"

\* The COUNTERS rows a port may have: without the field, or with a 64-bit count
\* in decimal text (5, 2^32 - 1, 2^32 + 7).
CounterRows ==
    { EmptyDict,
      (IN_OCTETS :> <<5>>),
      (IN_OCTETS :> <<4, 2, 9, 4, 9, 6, 7, 2, 9, 5>>),
      (IN_OCTETS :> <<4, 2, 9, 4, 9, 6, 7, 3, 0, 3>>) }

Counters0 == [i \in {SaiP1, SaiP2, SaiP3} |-> (IN_OCTETS :> <<5>>)]

LagNameMap0 == (Pc1 :> OidText(SaiLag1))

NoLags == [LAG_TABLE |-> EmptyDict, LAG_MEMBER_TABLE |-> EmptyDict]

\* The PSU_INFO rows: no field, present and ok, present and failed, present
\* without a status, absent.
PsuRows ==
    { PsuRow(None, None),
      PsuRow(Some("true"), Some("true")),
      PsuRow(Some("true"), Some("false")),
      PsuRow(Some("true"), None),
      PsuRow(Some("false"), Some("true")) }

\* The CHASSIS_INFO rows: without psu_num, or with a count of 0..MaxPsus.
ChassisRows == {ChassisRow(None)} \cup {ChassisRow(Some(<<n>>)) : n \in 0..MaxPsus}

PsuStores == [chassis : ChassisRows, psu : [1..MaxPsus -> PsuRows]]

PsuStore0 == [chassis |-> ChassisRow(None), psu |-> [i \in 1..MaxPsus |-> PsuRow(None, None)]]

\* The reads of one handler call: _getPsuIndex's count, then the presence or
\* get_next's own count, then the status.
PsuReads == {1, 2, 3}

\* The ways the store fails during a call: at no read, at one read, at every read.
PsuFaults == {{}, PsuReads} \cup {{n} : n \in PsuReads}

\* The SubIDs the PSU handler is queried with.
PsuProbes == {<< >>, <<1, 1>>} \cup {<<i>> : i \in 0..(MaxPsus + 1)}

NoPsuQuery == [op |-> "none", sub_id |-> << >>, reply |-> Return(None)]

\* The sensor keys queried: those of SENSOR_PART_ID_MAP and one it does not hold.
SensorKeys == (DOMAIN SENSOR_PART_ID_MAP) \cup {"rx5power"}

NoXcvrQuery ==
    [ifindex |-> 0, sensor |-> "", sub_id |-> << >>, sensor_sub_id |-> Return(<< >>)]

Eth8 == IfName("Ethernet", 8)
SaiP4 == <<"1", "0", "0", "4">>

\* The PORT_TABLE of a namespace: a row for every port, none with an alias.
NsPortTable == [n \in {Eth0, Eth4, Eth8, Cpu} |-> PortRow(None, Some("up"), Some("up"), None)]

Pc2 == IfName("PortChannel", 2)
Pc3 == IfName("PortChannel", 3)
LagRow == PortRow(None, Some("up"), Some("up"), None)

\* The queue "<port>:<queue>" of COUNTERS_QUEUE_NAME_MAP.
Queue(port, queue) == [port |-> port, queue |-> queue]

\* The SAI id of a queue and its row of counters.
SaiQ(n) == OidText(<<"1", "5", n>>)
QueueRow(n) == (queue_table(SaiQ(n)) :> [SAI_QUEUE_STAT_PACKETS |-> n])

\* What port_util reads from the ASIC_DB of a namespace: router interface ->
\* port, VLAN id -> VLAN name, bridge port -> port.
NoAsic == [rif |-> EmptyDict, vlan |-> EmptyDict, bridge |-> EmptyDict]
Asic(n, port) ==
    [rif |-> (<<"6", n>> :> port), vlan |-> (<<"2", "6", n>> :> IfName("Vlan", 100)),
     bridge |-> (<<"3", "a", n>> :> port)]

\* One namespace's stores; lag_names is None when the store has no hash
\* COUNTERS_LAG_NAME_MAP.
Connection(ports, lag, lag_names, queues, asic, overlay) ==
    [COUNTERS_DB |->
        IF lag_names = None
        THEN [COUNTERS_PORT_NAME_MAP |-> ports, COUNTERS_QUEUE_NAME_MAP |-> queues.names,
              COUNTERS |-> queues.rows]
        ELSE [COUNTERS_PORT_NAME_MAP |-> ports, COUNTERS_LAG_NAME_MAP |-> lag_names[1],
              COUNTERS_QUEUE_NAME_MAP |-> queues.names, COUNTERS |-> queues.rows],
     APPL_DB |-> [PORT_TABLE |-> NsPortTable, LAG_TABLE |-> lag.LAG_TABLE,
                  LAG_MEMBER_TABLE |-> lag.LAG_MEMBER_TABLE],
     rif_port_map |-> asic.rif, vlan_name_map |-> asic.vlan, if_br_oid_map |-> asic.bridge,
     SNMP_OVERLAY_DB |-> overlay]

\* The namespaces the connections are drawn from; the last argument is the
\* SNMP_OVERLAY_DB of the namespace, key -> fields.
\* An empty store.
ConnEmpty ==
    Connection(EmptyDict, NoLags, None, [names |-> EmptyDict, rows |-> EmptyDict], NoAsic,
               EmptyDict)

\* The CPU port only, a LAG without members, no hash of LAG names, no queue.
ConnCpu ==
    Connection((Cpu :> OidText(SaiP3)),
               [LAG_TABLE |-> (Pc1 :> LagRow), LAG_MEMBER_TABLE |-> (Pc1 :> {})], None,
               [names |-> EmptyDict, rows |-> EmptyDict], NoAsic,
               (OidKey1 :> [type |-> "COUNTER_32"]))

\* A front-panel port beside the CPU port, a LAG of one member whose SAI id
\* starts with "0d", two queues of the port and the counters of one of them.
ConnMixed ==
    Connection((Eth0 :> OidText(SaiP1)) @@ (Cpu :> OidText(SaiP3)),
               [LAG_TABLE |-> (Pc1 :> LagRow), LAG_MEMBER_TABLE |-> (Pc1 :> {Eth0})],
               Some((Pc1 :> OidText(<<"0", "d", "0", "1">>))),
               [names |-> (Queue(Eth0, 3) :> SaiQ("3")) @@ (Queue(Eth0, 1) :> SaiQ("1")),
                rows |-> QueueRow("3")],
               Asic("1", SaiP1),
               (OidKey1 :> [type |-> "GAUGE_32", data |-> <<4>>])
                  @@ (OidKey2 :> [type |-> "COUNTER_32"]))

\* Front-panel ports only, a LAG of two members and a LAG without members that
\* the hash of LAG names does not list, three queues with their counters.
ConnPorts ==
    Connection((Eth4 :> OidText(SaiP2)) @@ (Eth8 :> OidText(SaiP4)),
               [LAG_TABLE |-> (Pc2 :> LagRow) @@ (Pc3 :> LagRow),
                LAG_MEMBER_TABLE |-> (Pc2 :> {Eth4, Eth8}) @@ (Pc3 :> {})],
               Some((Pc2 :> OidText(<<"2", "0", "0", "2">>))),
               [names |-> (Queue(Eth4, 2) :> SaiQ("4")) @@ (Queue(Eth4, 0) :> SaiQ("5"))
                             @@ (Queue(Eth8, 1) :> SaiQ("6")),
                rows |-> QueueRow("4") @@ QueueRow("5") @@ QueueRow("6")],
               Asic("2", SaiP2),
               (OidKey1 :> [data |-> <<7>>]))

\* Two ports under one SAI id, a LAG without members, queues without counters.
ConnShared ==
    Connection((Eth0 :> OidText(SaiP1)) @@ (Eth4 :> OidText(SaiP1)),
               [LAG_TABLE |-> (Pc1 :> LagRow), LAG_MEMBER_TABLE |-> (Pc1 :> {})],
               Some((Pc1 :> OidText(SaiLag1))),
               [names |-> (Queue(Eth0, 0) :> SaiQ("7")) @@ (Queue(Eth4, 0) :> SaiQ("8")),
                rows |-> EmptyDict],
               Asic("1", SaiP2),
               (OidKey2 :> [type |-> "COUNTER_64", unit |-> "bytes"]))

Connections == {ConnEmpty, ConnCpu, ConnMixed, ConnPorts, ConnShared}

\* What keys() may answer for the member keys of each LAG of a connection: the
\* members in some order, None or the empty list when there are none.
MemberAnswers(c) ==
    LET one(g) == IF c.APPL_DB.LAG_MEMBER_TABLE[g] = {} THEN {None, Some(<< >>)}
                  ELSE {Some(e) : e \in Enumerations(c.APPL_DB.LAG_MEMBER_TABLE[g])}
    IN  {a \in [DOMAIN c.APPL_DB.LAG_TABLE ->
                   UNION {one(g) : g \in DOMAIN c.APPL_DB.LAG_TABLE}] :
            \A g \in DOMAIN c.APPL_DB.LAG_TABLE : a[g] \in one(g)}

\* The answers of keys() over a sequence of connections.
NsMemberAnswers(dbs) ==
    {a \in [1..Len(dbs) -> UNION {MemberAnswers(dbs[i]) : i \in 1..Len(dbs)}] :
        \A i \in 1..Len(dbs) : a[i] \in MemberAnswers(dbs[i])}

\* The orders in which the queue name maps of a sequence of connections may
\* yield their items.
NsQueueOrders(dbs) ==
    {o \in [1..Len(dbs) ->
              UNION {Enumerations(DOMAIN dbs[i].COUNTERS_DB.COUNTERS_QUEUE_NAME_MAP) :
                        i \in 1..Len(dbs)}] :
        \A i \in 1..Len(dbs) :
           o[i] \in Enumerations(DOMAIN dbs[i].COUNTERS_DB.COUNTERS_QUEUE_NAME_MAP)}

\* The SNMP_OVERLAY_DB of each connection.
OverlayOf(dbs) == [i \in DOMAIN dbs |-> dbs[i].SNMP_OVERLAY_DB]

\* The namespace sets: one to MaxConnections connections, the primary first.
NamespaceSets == SeqsUpTo(Connections, MaxConnections) \ {<< >>}

NoNsQuery == [op |-> "none", arg |-> None, result |-> Return(None)]

\* The variables the index updaters leave alone.
otherUpdaters == <<SNMP_OVERLAY_DB, overlay_updater, if_updater, STATE_DB, statedb_fault,
                   psu_query, xcvr_query, db_conn, ns_query>>

\* The sorted index of the updater this run drives, whatever its kind.
IndexOf(u, arp, route, fdb) ==
    CASE u = "arp"   -> [map |-> arp.arp_dest_map, list |-> arp.arp_dest_list]
      [] u = "route" -> [map |-> route.route_dest_map, list |-> route.route_dest_list]
      [] u = "fdb"   -> [map |-> fdb.vlanmac_ifindex_map, list |-> fdb.vlanmac_ifindex_list]
      [] OTHER       -> [map |-> EmptyDict, list |-> << >>]

Index == IndexOf(updater, arp_updater, route_updater, fdb_updater)

\* The value lookup of the updater this run drives.
ValueOf(u, arp, route, fdb, sub_id) ==
    CASE u = "arp"   -> arp_dest(arp, sub_id)
      [] u = "route" -> route_dest(route, sub_id)
      [] u = "fdb"   -> fdb_ifindex(fdb, sub_id)
      [] OTHER       -> None

\* What the value lookup answers for every SubID of the index.
AnswersOf(u, arp, route, fdb) ==
    [s \in DOMAIN IndexOf(u, arp, route, fdb).map |-> ValueOf(u, arp, route, fdb, s)]

NoWalk == [on |-> FALSE, seen |-> << >>, done |-> FALSE]

\* The state before the constructors run, for the components of the set given.
InitOf(components) ==
    /\ updater \in components
    /\ phase = "uninit"
    /\ last = "none"
    /\ outcome = "none"
    /\ arptable \in (IF updater = "arp" THEN ArpTables ELSE {<< >>})
    /\ \E lag \in (IF updater = "if" THEN LagConfigs ELSE {NoLags}) :
         APPL_DB \in [route : (IF updater = "route" THEN RouteEntries ELSE {None}),
                      PORT_TABLE : {PortTable0},
                      LAG_TABLE : {lag.LAG_TABLE},
                      LAG_MEMBER_TABLE : {lag.LAG_MEMBER_TABLE}]
    /\ ASIC_DB \in [fdb : (IF updater = "fdb" THEN FdbTables ELSE {{}}),
                    bridge : (IF updater = "fdb" THEN BridgeTables ELSE {EmptyDict})]
    /\ COUNTERS_DB \in [COUNTERS_PORT_NAME_MAP :
                            (IF updater \in {"route", "fdb", "if"} THEN PortNameMaps ELSE {EmptyDict}),
                        COUNTERS_LAG_NAME_MAP : {LagNameMap0},
                        COUNTERS : {Counters0}]
    /\ SNMP_OVERLAY_DB \in (IF updater = "overlay"
                             THEN SeqsUpTo(OverlayTables, MaxNamespaces) \ {<< >>}
                             ELSE {<<EmptyDict>>})
    /\ overlay_updater = OverlayNew
    /\ if_updater = IfNew
    /\ arp_updater = ArpIndex(EmptyDict, << >>)
    /\ route_updater = RouteIndex(EmptyDict, << >>)
    /\ fdb_updater = FdbNew
    /\ completed = [map |-> EmptyDict, list |-> << >>]
    /\ answered = EmptyDict
    /\ evicted = FALSE
    /\ walk = NoWalk
    /\ STATE_DB \in (IF updater = "psu" THEN PsuStores ELSE {PsuStore0})
    /\ statedb_fault = {}
    /\ psu_query = NoPsuQuery
    /\ xcvr_query = NoXcvrQuery
    /\ db_conn \in (IF updater = "ns" THEN NamespaceSets ELSE {<<ConnEmpty>>})
    /\ ns_query = NoNsQuery

\* What a call of update_data leaves in outcome, completed and walk, given the
\* updaters as the call left them.
Refreshed(exc, arp, route, fdb) ==
    /\ last' = "update_data"
    /\ outcome' = IF exc = "none" THEN "ok" ELSE "raise"
    /\ completed' = IF exc = "none" THEN IndexOf(updater, arp, route, fdb) ELSE completed
    /\ answered' = IF exc = "none" THEN AnswersOf(updater, arp, route, fdb) ELSE answered
    /\ evicted' = ((DOMAIN Index.map) \ (DOMAIN IndexOf(updater, arp, route, fdb).map) # {})
    /\ walk' = NoWalk

\* What a constructor leaves: the updater serves if every step returned.
Constructed(exc, arp, route, fdb) ==
    /\ phase' = IF exc = "none" THEN "serving" ELSE "failed"
    /\ last' = "__init__"
    /\ outcome' = IF exc = "none" THEN "ok" ELSE "raise"
    /\ completed' = IF exc = "none" THEN IndexOf(updater, arp, route, fdb) ELSE completed
    /\ answered' = IF exc = "none" THEN AnswersOf(updater, arp, route, fdb) ELSE answered
    /\ evicted' = FALSE
    /\ walk' = NoWalk

\* ArpUpdater.__init__, lines 48-53.
ArpInit ==
    /\ updater = "arp" /\ phase = "uninit"
    /\ LET r == ArpUpdateData(ArpIndex(EmptyDict, << >>), arptable)
       IN  /\ arp_updater' = r.val
           /\ Constructed(r.exc, r.val, route_updater, fdb_updater)
    /\ UNCHANGED <<updater, arptable, APPL_DB, ASIC_DB, COUNTERS_DB, route_updater,
                   fdb_updater>>
    /\ UNCHANGED otherUpdaters

\* ArpUpdater.update_data, called by the agent's refresh loop.
ArpUpdate ==
    /\ updater = "arp" /\ phase = "serving"
    /\ LET r == ArpUpdateData(arp_updater, arptable)
       IN  /\ arp_updater' = r.val
           /\ Refreshed(r.exc, r.val, route_updater, fdb_updater)
    /\ UNCHANGED <<updater, phase, arptable, APPL_DB, ASIC_DB, COUNTERS_DB,
                   route_updater, fdb_updater>>
    /\ UNCHANGED otherUpdaters

\* RouteUpdater.__init__, lines 15-19: the interface tables are loaded for the
\* connection, then update_data seeds the index.
RouteInit ==
    /\ updater = "route" /\ phase = "uninit"
    /\ LET t == init_sync_d_interface_tables(COUNTERS_DB, APPL_DB)
           r == IF t.exc # "none" THEN Raise(t.exc, route_updater)
                ELSE RouteUpdateData(route_updater, APPL_DB.route)
       IN  /\ route_updater' = r.val
           /\ Constructed(r.exc, arp_updater, r.val, fdb_updater)
    /\ UNCHANGED <<updater, arptable, APPL_DB, ASIC_DB, COUNTERS_DB, arp_updater,
                   fdb_updater>>
    /\ UNCHANGED otherUpdaters

\* RouteUpdater.update_data, called by the agent's refresh loop.
RouteUpdate ==
    /\ updater = "route" /\ phase = "serving"
    /\ LET r == RouteUpdateData(route_updater, APPL_DB.route)
       IN  /\ route_updater' = r.val
           /\ Refreshed(r.exc, arp_updater, r.val, fdb_updater)
    /\ UNCHANGED <<updater, phase, arptable, APPL_DB, ASIC_DB, COUNTERS_DB,
                   arp_updater, fdb_updater>>
    /\ UNCHANGED otherUpdaters

\* FdbUpdater.__init__, lines 13-20: reinit_data, then update_data.
FdbInit ==
    /\ updater = "fdb" /\ phase = "uninit"
    /\ \E fdb_strings \in Enumerations(ASIC_DB.fdb) :
         LET i == FdbReinitData(FdbNew, COUNTERS_DB, APPL_DB, ASIC_DB)
             r == IF i.exc # "none" THEN i ELSE FdbUpdateData(i.val, fdb_strings)
         IN  /\ fdb_updater' = r.val
             /\ Constructed(r.exc, arp_updater, route_updater, r.val)
    /\ UNCHANGED <<updater, arptable, APPL_DB, ASIC_DB, COUNTERS_DB, arp_updater,
                   route_updater>>
    /\ UNCHANGED otherUpdaters

\* FdbUpdater.reinit_data, called by the agent's refresh loop before a refresh.
FdbReinit ==
    /\ updater = "fdb" /\ phase = "serving"
    /\ fdb_updater' = FdbReinitData(fdb_updater, COUNTERS_DB, APPL_DB, ASIC_DB).val
    /\ last' = "reinit_data"
    /\ walk' = NoWalk
    /\ UNCHANGED <<updater, phase, outcome, arptable, APPL_DB, ASIC_DB, COUNTERS_DB,
                   arp_updater, route_updater, completed, answered, evicted>>
    /\ UNCHANGED otherUpdaters

\* FdbUpdater.update_data, called by the agent's refresh loop; keys() enumerates
\* the FDB keys in any order.
FdbUpdate ==
    /\ updater = "fdb" /\ phase = "serving"
    /\ \E fdb_strings \in Enumerations(ASIC_DB.fdb) :
         LET r == FdbUpdateData(fdb_updater, fdb_strings)
         IN  /\ fdb_updater' = r.val
             /\ Refreshed(r.exc, arp_updater, route_updater, r.val)
    /\ UNCHANGED <<updater, phase, arptable, APPL_DB, ASIC_DB, COUNTERS_DB,
                   arp_updater, route_updater>>
    /\ UNCHANGED otherUpdaters

\* The kernel adds a row to the ARP table or drops its last row.
ArpTableChange ==
    /\ updater = "arp"
    /\ \/ \E row \in ArpRows : Len(arptable) < MaxArpRows /\ arptable' = Append(arptable, row)
       \/ arptable # << >> /\ arptable' = Tail(arptable)
    /\ last' = "store"
    /\ walk' = NoWalk
    /\ UNCHANGED <<updater, phase, outcome, APPL_DB, ASIC_DB, COUNTERS_DB, arp_updater,
                   route_updater, fdb_updater, completed, answered, evicted>>
    /\ UNCHANGED otherUpdaters

\* The routing daemon rewrites the default route.
RouteChange ==
    /\ updater = "route"
    /\ \E ent \in RouteEntries \ {APPL_DB.route} : APPL_DB' = [APPL_DB EXCEPT !.route = ent]
    /\ last' = "store"
    /\ walk' = NoWalk
    /\ UNCHANGED <<updater, phase, outcome, arptable, ASIC_DB, COUNTERS_DB, arp_updater,
                   route_updater, fdb_updater, completed, answered, evicted>>
    /\ UNCHANGED otherUpdaters

\* The switch learns or ages out an FDB entry, or a bridge port changes.
AsicChange ==
    /\ updater = "fdb"
    /\ \/ \E e \in FdbEntries \ ASIC_DB.fdb :
            /\ Cardinality(ASIC_DB.fdb) < MaxFdbKeys
            /\ ASIC_DB' = [ASIC_DB EXCEPT !.fdb = @ \cup {e}]
       \/ \E e \in ASIC_DB.fdb : ASIC_DB' = [ASIC_DB EXCEPT !.fdb = @ \ {e}]
       \/ \E b \in BridgeTables \ {ASIC_DB.bridge} : ASIC_DB' = [ASIC_DB EXCEPT !.bridge = b]
    /\ last' = "store"
    /\ walk' = NoWalk
    /\ UNCHANGED <<updater, phase, outcome, arptable, APPL_DB, COUNTERS_DB, arp_updater,
                   route_updater, fdb_updater, completed, answered, evicted>>
    /\ UNCHANGED otherUpdaters

\* The port set of the switch changes.
PortMapChange ==
    /\ updater \in {"fdb", "if"}
    /\ \E m \in PortNameMaps \ {COUNTERS_DB.COUNTERS_PORT_NAME_MAP} :
         COUNTERS_DB' = [COUNTERS_DB EXCEPT !.COUNTERS_PORT_NAME_MAP = m]
    /\ last' = "store"
    /\ walk' = NoWalk
    /\ UNCHANGED <<updater, phase, outcome, arptable, APPL_DB, ASIC_DB, arp_updater,
                   route_updater, fdb_updater, completed, answered, evicted>>
    /\ UNCHANGED otherUpdaters

\* A manager starts a get-next walk from the empty SubID. The walk followed is the
\* one made on the index as update_data left it: get_next reads the list alone,
\* so a walk made after a write to the store sees what this one sees.
WalkStart ==
    /\ updater \in IndexUpdaters /\ phase = "serving"
    /\ last \in {"update_data", "__init__"}
    /\ walk' = [on |-> TRUE, seen |-> << >>, done |-> FALSE]
    /\ UNCHANGED <<updater, phase, last, outcome, arptable, APPL_DB, ASIC_DB, COUNTERS_DB,
                   arp_updater, route_updater, fdb_updater, completed, answered, evicted>>
    /\ UNCHANGED otherUpdaters

\* The argument of the walk's next get_next: the SubID it was last given.
WalkCursor(w) == IF w.seen = << >> THEN << >> ELSE w.seen[Len(w.seen)]

\* The walk's next GET-NEXT: get_next on the last SubID returned.
WalkStep ==
    /\ updater \in IndexUpdaters /\ phase = "serving"
    /\ walk.on /\ ~walk.done
    /\ LET r == get_next(Index.list, WalkCursor(walk))
       IN  walk' = IF r = None THEN [walk EXCEPT !.done = TRUE]
                   ELSE [walk EXCEPT !.seen = Append(@, r[1])]
    /\ UNCHANGED <<updater, phase, last, outcome, arptable, APPL_DB, ASIC_DB, COUNTERS_DB,
                   arp_updater, route_updater, fdb_updater, completed, answered, evicted>>
    /\ UNCHANGED otherUpdaters

\* The variables the overlay and interface actions leave alone.
indexState == <<arptable, ASIC_DB, arp_updater, route_updater, fdb_updater, completed,
                evicted, walk, STATE_DB, statedb_fault, psu_query, xcvr_query, db_conn, ns_query>>

\* What get_oidvalue answers for every OID of the overlay's map.
OverlayAnswers(self) == [oid \in DOMAIN self.oid_map[1] |-> get_oidvalue(self, oid)]

\* What get_counter answers for every SubID of the interface range.
IfAnswers(self) == [s \in get_if_range(self) |-> get_counter(self, Some(s), IN_OCTETS)]

\* RedisOidTreeUpdater.__init__, lines 462-468: update_data is not called.
OverlayInit ==
    /\ updater = "overlay" /\ phase = "uninit"
    /\ overlay_updater' = OverlayNew
    /\ phase' = "serving"
    /\ last' = "__init__"
    /\ UNCHANGED <<updater, outcome, APPL_DB, COUNTERS_DB, SNMP_OVERLAY_DB, if_updater, answered>>
    /\ UNCHANGED indexState

\* RedisOidTreeUpdater.update_data, called by the agent's refresh loop; every
\* namespace enumerates its keys in any order.
OverlayUpdate ==
    /\ updater = "overlay" /\ phase = "serving"
    /\ \E listing \in Listings(SNMP_OVERLAY_DB) :
         LET r == OverlayUpdateData(overlay_updater, SNMP_OVERLAY_DB, listing)
         IN  /\ overlay_updater' = r.val
             /\ outcome' = IF r.exc = "none" THEN "ok" ELSE "raise"
             /\ answered' = IF r.exc = "none" THEN OverlayAnswers(r.val) ELSE answered
    /\ last' = "update_data"
    /\ UNCHANGED <<updater, phase, APPL_DB, COUNTERS_DB, SNMP_OVERLAY_DB, if_updater>>
    /\ UNCHANGED indexState

\* A namespace's overlay rows are rewritten, a namespace comes or goes.
OverlayChange ==
    /\ updater = "overlay"
    /\ \/ \E i \in DOMAIN SNMP_OVERLAY_DB : \E t \in OverlayTables \ {SNMP_OVERLAY_DB[i]} :
            SNMP_OVERLAY_DB' = [SNMP_OVERLAY_DB EXCEPT ![i] = t]
       \/ \E t \in OverlayTables :
            /\ Len(SNMP_OVERLAY_DB) < MaxNamespaces
            /\ SNMP_OVERLAY_DB' = Append(SNMP_OVERLAY_DB, t)
       \/ Len(SNMP_OVERLAY_DB) > 1
            /\ SNMP_OVERLAY_DB' = SubSeq(SNMP_OVERLAY_DB, 1, Len(SNMP_OVERLAY_DB) - 1)
    /\ last' = "store"
    /\ UNCHANGED <<updater, phase, outcome, APPL_DB, COUNTERS_DB, overlay_updater, if_updater,
                   answered>>
    /\ UNCHANGED indexState

\* InterfacesUpdater.__init__, lines 94-109; keys() lists each LAG's members in
\* any order.
IfInit ==
    /\ updater = "if" /\ phase = "uninit"
    /\ \E lag_members \in MemberListings(APPL_DB) :
         LET r == IfConstruct(APPL_DB, COUNTERS_DB, lag_members)
         IN  /\ if_updater' = r.val
             /\ phase' = IF r.exc = "none" THEN "serving" ELSE "failed"
             /\ outcome' = IF r.exc = "none" THEN "ok" ELSE "raise"
             /\ answered' = IF r.exc = "none" THEN IfAnswers(r.val) ELSE answered
    /\ last' = "__init__"
    /\ UNCHANGED <<updater, APPL_DB, COUNTERS_DB, SNMP_OVERLAY_DB, overlay_updater>>
    /\ UNCHANGED indexState

\* InterfacesUpdater.update_data, called by the agent's refresh loop.
IfUpdate ==
    /\ updater = "if" /\ phase = "serving"
    /\ LET r == IfUpdateData(if_updater, COUNTERS_DB)
       IN  /\ if_updater' = r.val
           /\ outcome' = IF r.exc = "none" THEN "ok" ELSE "raise"
           /\ answered' = IF r.exc = "none" THEN IfAnswers(r.val) ELSE answered
    /\ last' = "update_data"
    /\ UNCHANGED <<updater, phase, APPL_DB, COUNTERS_DB, SNMP_OVERLAY_DB, overlay_updater>>
    /\ UNCHANGED indexState

\* The switch counts: the COUNTERS row of a port is rewritten.
CountersChange ==
    /\ updater = "if"
    /\ \E sai_id \in {SaiP1, SaiP2} : \E row \in CounterRows \ {COUNTERS_DB.COUNTERS[sai_id]} :
         COUNTERS_DB' = [COUNTERS_DB EXCEPT !.COUNTERS[sai_id] = row]
    /\ last' = "store"
    /\ UNCHANGED <<updater, phase, outcome, APPL_DB, SNMP_OVERLAY_DB, overlay_updater, if_updater,
                   answered>>
    /\ UNCHANGED indexState

\* The configuration changes: a LAG is made or removed, a member joins or leaves.
LagChange ==
    /\ updater = "if"
    /\ \E lag \in LagConfigs :
         /\ lag.LAG_MEMBER_TABLE # APPL_DB.LAG_MEMBER_TABLE
         /\ APPL_DB' = [APPL_DB EXCEPT !.LAG_TABLE = lag.LAG_TABLE,
                                       !.LAG_MEMBER_TABLE = lag.LAG_MEMBER_TABLE]
    /\ last' = "store"
    /\ UNCHANGED <<updater, phase, outcome, COUNTERS_DB, SNMP_OVERLAY_DB, overlay_updater, if_updater,
                   answered>>
    /\ UNCHANGED indexState

\* PORT_TABLE:Ethernet0 is rewritten: the port goes up or down, its MTU is set.
PortRowChange ==
    /\ updater = "if"
    /\ \E row \in PortRows \ {APPL_DB.PORT_TABLE[Eth0]} :
         APPL_DB' = [APPL_DB EXCEPT !.PORT_TABLE[Eth0] = row]
    /\ last' = "store"
    /\ UNCHANGED <<updater, phase, outcome, COUNTERS_DB, SNMP_OVERLAY_DB, overlay_updater, if_updater,
                   answered>>
    /\ UNCHANGED indexState

\* PowerStatusHandler.__init__, lines 51-56: the handler connects to STATE_DB.
PsuInit ==
    /\ updater = "psu" /\ phase = "uninit"
    /\ phase' = "serving"
    /\ last' = "__init__"
    /\ UNCHANGED <<updater, outcome, APPL_DB, COUNTERS_DB, SNMP_OVERLAY_DB, overlay_updater,
                   if_updater, answered>>
    /\ UNCHANGED indexState

\* A handler call and its reply; a call that raises ends the serving loop.
PsuCall(op, sub_id, reply) ==
    /\ psu_query' = [op |-> op, sub_id |-> sub_id, reply |-> reply]
    /\ phase' = IF reply.exc = "none" THEN phase ELSE "failed"
    /\ UNCHANGED <<updater, last, outcome, arptable, APPL_DB, ASIC_DB, COUNTERS_DB, arp_updater,
                   route_updater, fdb_updater, SNMP_OVERLAY_DB, overlay_updater, if_updater,
                   completed, answered, evicted, walk, STATE_DB, statedb_fault, xcvr_query, db_conn,
                   ns_query>>

\* The agent asks the handler for the SubID after sub_id.
PsuNextQuery ==
    /\ updater = "psu" /\ phase = "serving"
    /\ \E sub_id \in PsuProbes :
         PsuCall("get_next", sub_id, PsuGetNext(STATE_DB, statedb_fault, sub_id))

\* The agent asks the handler for the status at sub_id.
PsuStatusQuery ==
    /\ updater = "psu" /\ phase = "serving"
    /\ \E sub_id \in PsuProbes :
         PsuCall("getPsuStatus", sub_id, getPsuStatus(STATE_DB, statedb_fault, sub_id))

\* The platform rewrites one STATE_DB row: the chassis row or a PSU's.
StateDbChange ==
    /\ updater = "psu"
    /\ \/ \E row \in ChassisRows \ {STATE_DB.chassis} :
            STATE_DB' = [STATE_DB EXCEPT !.chassis = row]
       \/ \E i \in 1..MaxPsus : \E row \in PsuRows \ {STATE_DB.psu[i]} :
            STATE_DB' = [STATE_DB EXCEPT !.psu[i] = row]
    /\ psu_query' = NoPsuQuery
    /\ last' = "store"
    /\ UNCHANGED <<updater, phase, outcome, arptable, APPL_DB, ASIC_DB, COUNTERS_DB, arp_updater,
                   route_updater, fdb_updater, SNMP_OVERLAY_DB, overlay_updater, if_updater,
                   completed, answered, evicted, walk, statedb_fault, xcvr_query, db_conn, ns_query>>

\* The store starts or stops failing.
StateDbFault ==
    /\ updater = "psu"
    /\ \E fault \in PsuFaults \ {statedb_fault} : statedb_fault' = fault
    /\ psu_query' = NoPsuQuery
    /\ last' = "store"
    /\ UNCHANGED <<updater, phase, outcome, arptable, APPL_DB, ASIC_DB, COUNTERS_DB, arp_updater,
                   route_updater, fdb_updater, SNMP_OVERLAY_DB, overlay_updater, if_updater,
                   completed, answered, evicted, walk, STATE_DB, xcvr_query, db_conn, ns_query>>

\* A transceiver MIB computes the sub-identifiers of an interface's transceiver
\* and of one of its sensors.
XcvrQuery ==
    /\ updater = "xcvr"
    /\ \E ifindex \in 1..MaxIfIndex : \E sensor \in SensorKeys :
         xcvr_query' = [ifindex |-> ifindex, sensor |-> sensor,
                        sub_id |-> get_transceiver_sub_id(ifindex),
                        sensor_sub_id |-> get_transceiver_sensor_sub_id(ifindex, sensor)]
    /\ UNCHANGED <<updater, phase, last, outcome, arptable, APPL_DB, ASIC_DB, COUNTERS_DB,
                   arp_updater, route_updater, fdb_updater, SNMP_OVERLAY_DB, overlay_updater,
                   if_updater, completed, answered, evicted, walk, STATE_DB, statedb_fault,
                   psu_query, db_conn, ns_query>>

\* The variables a Namespace call leaves alone.
nsUnchanged == <<updater, phase, last, outcome, arptable, APPL_DB, ASIC_DB, COUNTERS_DB,
                 arp_updater, route_updater, fdb_updater, SNMP_OVERLAY_DB, overlay_updater,
                 if_updater, completed, answered, evicted, walk, STATE_DB, statedb_fault,
                 psu_query, xcvr_query>>

\* A namespace's stores are rewritten, a namespace comes or goes.
NsChange ==
    /\ updater = "ns"
    /\ \/ \E i \in DOMAIN db_conn : \E c \in Connections \ {db_conn[i]} : db_conn' = [db_conn EXCEPT ![i] = c]
       \/ \E c \in Connections : Len(db_conn) < MaxConnections /\ db_conn' = Append(db_conn, c)
       \/ Len(db_conn) > 1 /\ db_conn' = SubSeq(db_conn, 1, Len(db_conn) - 1)
    /\ ns_query' = NoNsQuery
    /\ UNCHANGED nsUnchanged

\* An updater's constructor loads the interface tables of the namespaces.
NsInterfaceTables ==
    /\ updater = "ns"
    /\ ns_query.op = "none"
    /\ ns_query' = [op |-> "init_namespace_sync_d_interface_tables", arg |-> None,
                    result |-> init_namespace_sync_d_interface_tables(db_conn)]
    /\ UNCHANGED <<db_conn>>
    /\ UNCHANGED nsUnchanged

\* An updater's constructor loads the LAG tables of the namespaces.
NsLagTables ==
    /\ updater = "ns"
    /\ ns_query.op = "none"
    /\ \E answers \in NsMemberAnswers(get_non_host_dbs(db_conn)) :
          ns_query' = [op |-> "init_namespace_sync_d_lag_tables", arg |-> answers,
                       result |-> init_namespace_sync_d_lag_tables(db_conn, answers)]
    /\ UNCHANGED <<db_conn>>
    /\ UNCHANGED nsUnchanged

\* An updater's constructor loads the queue tables of the namespaces.
NsQueueTables ==
    /\ updater = "ns"
    /\ ns_query.op = "none"
    /\ \E orders \in NsQueueOrders(get_non_host_dbs(db_conn)) :
          ns_query' = [op |-> "init_namespace_sync_d_queue_tables", arg |-> orders,
                       result |-> init_namespace_sync_d_queue_tables(db_conn, orders)]
    /\ UNCHANGED <<db_conn>>
    /\ UNCHANGED nsUnchanged

\* An updater's constructor loads the router interface tables of the namespaces.
NsRifTables ==
    /\ updater = "ns"
    /\ ns_query.op = "none"
    /\ ns_query' = [op |-> "init_namespace_sync_d_rif_tables", arg |-> None,
                    result |-> Return(init_namespace_sync_d_rif_tables(db_conn))]
    /\ UNCHANGED <<db_conn>>
    /\ UNCHANGED nsUnchanged

\* An updater's constructor loads the VLAN tables of the namespaces.
NsVlanTables ==
    /\ updater = "ns"
    /\ ns_query.op = "none"
    /\ ns_query' = [op |-> "init_namespace_sync_d_vlan_tables", arg |-> None,
                    result |-> Return(init_namespace_sync_d_vlan_tables(db_conn))]
    /\ UNCHANGED <<db_conn>>
    /\ UNCHANGED nsUnchanged

\* FdbUpdater.reinit_data reads the bridge port map of the namespaces.
NsBridgePortMap ==
    /\ updater = "ns"
    /\ ns_query.op = "none"
    /\ ns_query' = [op |-> "dbs_get_bridge_port_map", arg |-> None,
                    result |-> Return(dbs_get_bridge_port_map(db_conn))]
    /\ UNCHANGED <<db_conn>>
    /\ UNCHANGED nsUnchanged

\* An updater scans the keys of the connections.
NsKeys ==
    /\ updater = "ns"
    /\ ns_query.op = "none"
    /\ \E listing \in Listings(OverlayOf(db_conn)) :
          ns_query' = [op |-> "dbs_keys", arg |-> listing, result |-> Return(dbs_keys(listing))]
    /\ UNCHANGED <<db_conn>>
    /\ UNCHANGED nsUnchanged

\* An updater reads the fields of one key over the connections.
NsGetAll ==
    /\ updater = "ns"
    /\ ns_query.op = "none"
    /\ \E hash \in {OidKey1, OidKey2} :
          ns_query' = [op |-> "dbs_get_all", arg |-> hash,
                       result |-> Return(dbs_get_all(OverlayOf(db_conn), hash))]
    /\ UNCHANGED <<db_conn>>
    /\ UNCHANGED nsUnchanged

Init == InitOf(Updaters)

Next ==
    \/ ArpInit \/ ArpUpdate \/ ArpTableChange
    \/ RouteInit \/ RouteUpdate \/ RouteChange
    \/ FdbInit \/ FdbReinit \/ FdbUpdate \/ AsicChange \/ PortMapChange
    \/ WalkStart \/ WalkStep
    \/ OverlayInit \/ OverlayUpdate \/ OverlayChange
    \/ IfInit \/ IfUpdate \/ CountersChange \/ LagChange \/ PortRowChange
    \/ PsuInit \/ PsuNextQuery \/ PsuStatusQuery \/ StateDbChange \/ StateDbFault
    \/ XcvrQuery

Spec == Init /\ [][Next]_vars

\* The calls of the Namespace class over the connections: the stores of the
\* namespaces change, and each call is made on the stores as they are.
NsInit == InitOf({"ns"})

NsNext ==
    \/ NsChange \/ NsInterfaceTables \/ NsLagTables \/ NsQueueTables
    \/ NsRifTables \/ NsVlanTables \/ NsBridgePortMap
    \/ NsKeys \/ NsGetAll

NsSpec == NsInit /\ [][NsNext]_vars

----------------------------------------------------------------------------
(* What the claims are stated over.                                        *)

\* The SubID an ARP row, a nexthop text or an FDB key derives, when it derives one.
ArpSubIds(rows) ==
    {<<get_index_from_str(r.Device)[1]>> \o ip2tuple_v4(r.IP) :
        r \in {x \in rows : get_index_from_str(x.Device) # None}}

RouteSubIds(nhs) ==
    {ip2tuple(IpnNetworkAddress) \o ip2tuple(IpnNetmask) \o ip2tuple(nh) :
        nh \in {x \in nhs : IpParses(x)}}

FdbSubIds(entries) == {fdb_vlanmac(e.key) : e \in {x \in entries : x.key.json_ok}}

\* The SubIDs derived from the entries the backing table holds now.
StoreSubIds ==
    CASE updater = "arp"   -> ArpSubIds(Range(arptable))
      [] updater = "route" -> IF APPL_DB.route = None \/ APPL_DB.route[1].nexthop = None
                              THEN {}
                              ELSE RouteSubIds(Range(APPL_DB.route[1].nexthop[1]))
      [] updater = "fdb"   -> FdbSubIds(ASIC_DB.fdb)
      [] OTHER             -> {}

\* Every SubID some store of the run can derive.
KnownSubIds == ArpSubIds(ArpRows) \cup RouteSubIds(NexthopFields) \cup FdbSubIds(FdbEntries)

\* The tuples queries are made with: the empty tuple, every prefix of a known
\* SubID, the SubID itself, its neighbours in the last component and the SubID
\* extended by one component.
Probes ==
    UNION {{SubSeq(x, 1, k) : k \in 0..Len(x)}
           \cup {[x EXCEPT ![Len(x)] = @ + 1], [x EXCEPT ![Len(x)] = @ - 1], Append(x, 0)} :
           x \in KnownSubIds}

\* The lexicographically smallest element of S strictly greater than s, if any.
Successor(S, s) ==
    LET G == {x \in S : TupleLess(s, x)}
    IN  IF G = {} THEN None
        ELSE Some(CHOOSE m \in G : \A y \in G : y = m \/ TupleLess(m, y))

\* The value lookup of the updater the run drives.
ValueAt(sub_id) == ValueOf(updater, arp_updater, route_updater, fdb_updater, sub_id)

\* The updater serves and its most recent update_data returned.
Committed == phase = "serving" /\ updater \in IndexUpdaters /\ outcome = "ok"

\* Nothing was written to the store since update_data last ran.
Fresh == last \in {"update_data", "__init__"}

StrictlyIncreasing(list) == \A i, j \in DOMAIN list : i < j => TupleLess(list[i], list[j])

\* The OIDs overlay queries are made with.
OverlayProbes == {oid2tuple(OidKey1), oid2tuple(OidKey2)}

\* The interface queries that read the store at the time of the query.
IfStatus(sub_id) ==
    <<get_admin_status(if_updater, APPL_DB, sub_id),
      get_oper_status(if_updater, APPL_DB, sub_id),
      get_mtu(if_updater, APPL_DB, sub_id)>>

\* The interface query answered from if_counters.
IfCounter(sub_id) == get_counter(if_updater, Some(sub_id), IN_OCTETS)

\* A step that writes the store while an updater serves a completed refresh.
StoreWrite == phase = "serving" /\ outcome = "ok" /\ last' = "store"

----------------------------------------------------------------------------
(* Claims.                                                                 *)

\* C1: after a refresh of ArpUpdater, FdbUpdater or RouteUpdater that returned,
\* get_next(s) is, for every tuple s (stored or not, the empty tuple included),
\* the smallest SubID of the snapshot strictly greater than s, and none exactly
\* when the snapshot has no SubID greater than s.
C1_GetNextIsSuccessor ==
    Committed => \A s \in Probes : get_next(Index.list, s) = Successor(DOMAIN Index.map, s)

\* C1 witness: a committed snapshot of several SubIDs in which a stored SubID has
\* a successor and another has none.
C1_Witness ==
    /\ Committed
    /\ Cardinality(DOMAIN Index.map) >= 2
    /\ \E s \in DOMAIN Index.map : get_next(Index.list, s) # None
    /\ \E s \in DOMAIN Index.map : get_next(Index.list, s) = None

\* C2: a get-next walk over one committed snapshot, started from the empty tuple,
\* returns the snapshot's SubIDs in strictly increasing order without skipping
\* any, has returned all of them when it receives none, and takes at most one
\* step more than there are SubIDs.
C2_WalkVisitsAllOnce ==
    (Committed /\ walk.on) =>
        /\ StrictlyIncreasing(walk.seen)
        /\ Range(walk.seen) \subseteq DOMAIN Index.map
        /\ \A x \in DOMAIN Index.map :
              (walk.seen # << >> /\ TupleLess(x, WalkCursor(walk))) => x \in Range(walk.seen)
        /\ walk.done => Range(walk.seen) = DOMAIN Index.map
        /\ Len(walk.seen) + (IF walk.done THEN 1 ELSE 0) <= Cardinality(DOMAIN Index.map) + 1

\* C2 witness: a walk over a committed snapshot of two SubIDs or more has ended.
C2_Witness ==
    Committed /\ walk.on /\ walk.done /\ Len(walk.seen) >= 2

\* C3: after every refresh that returned, the sorted list holds exactly the keys
\* of the value map; the value lookup is defined for every SubID get_next can
\* return and none for every SubID outside the snapshot.
C3_ListIsKeySet ==
    Committed =>
        /\ Range(Index.list) = DOMAIN Index.map
        /\ \A s \in Probes :
              /\ get_next(Index.list, s) # None => ValueAt(get_next(Index.list, s)[1]) # None
              /\ s \notin DOMAIN Index.map => ValueAt(s) = None
              /\ s \in DOMAIN Index.map => ValueAt(s) # None

\* C3 witness: a committed snapshot that holds a SubID and lacks a known one.
C3_Witness ==
    /\ Committed
    /\ DOMAIN Index.map # {}
    /\ \E s \in KnownSubIds : s \notin DOMAIN Index.map

\* C4: every Updater, the overlay RedisOidTreeUpdater included, has completed a
\* refresh when its constructor returns, so a query made right after construction
\* is answered from a populated index and does not fail on a missing one.
C4_SeededByConstructor ==
    (phase = "serving" /\ last = "__init__") =>
        /\ outcome = "ok"
        /\ updater = "overlay" =>
              \A oid \in OverlayProbes : get_oidvalue(overlay_updater, oid).exc = "none"

\* C5: at any time after seeding, queries are answered from the index of the most
\* recently completed refresh; no emptied, partly filled or unsorted index of a
\* refresh that raised is observable.
C5_OnlyCompletedVisible ==
    (phase = "serving" /\ updater \in IndexUpdaters) => Index = completed

\* C6: a refresh that follows a completed refresh with the backing data unchanged
\* leaves the same value map and the same sorted list, whatever order the store
\* enumerates its keys in.
C6_RefreshIdempotent ==
    [][(Committed /\ Fresh /\ last' = "update_data" /\ outcome' = "ok")
        => (Index' = Index)]_vars

Answer(s) ==
    CASE updater \in IndexUpdaters -> ValueAt(s)
      [] updater = "overlay"      -> get_oidvalue(overlay_updater, s)
      [] updater = "if"           -> IfCounter(s)

C8_NoStaleEntries ==
    (Committed /\ Fresh) =>
        /\ DOMAIN Index.map \subseteq StoreSubIds
        /\ Range(Index.list) \subseteq StoreSubIds

\* C8 witness: a refresh that returned dropped a SubID the index held before it.
C8_Witness ==
    Committed /\ last = "update_data" /\ evicted

\* C9: after a refresh of InterfacesUpdater its maps are the store's: the interface
\* range is the current ports and LAGs, and every LAG's member list is the members
\* the store holds for it, so that get_counter on a LAG sums the current members.
C9_RefreshRebuildsAllMaps ==
    (updater = "if" /\ phase = "serving" /\ last = "update_data" /\ outcome = "ok") =>
        LET tables == init_sync_d_interface_tables(COUNTERS_DB, APPL_DB)
        IN  /\ tables.exc = "none" =>
                  DOMAIN if_updater.oid_sai_map = DOMAIN tables.val.oid_sai_map
            /\ DOMAIN if_updater.lag_name_if_name_map = DOMAIN APPL_DB.LAG_TABLE
            /\ \A g \in (DOMAIN if_updater.lag_name_if_name_map) \cap (DOMAIN APPL_DB.LAG_TABLE) :
                  Range(if_updater.lag_name_if_name_map[g]) = APPL_DB.LAG_MEMBER_TABLE[g]

\* C10: the sorted SubID list is strictly increasing after every refresh, also
\* when two backing entries derive the same SubID.
C10_ListStrictlyIncreasing ==
    Committed => StrictlyIncreasing(Index.list)

----------------------------------------------------------------------------
(* Counters and interface status (InterfacesUpdater).                      *)

\* The value of a decimal text modulo 2^32, as <<low 16 bits, high 16 bits>>,
\* taken digit by digit on the two halves.
RECURSIVE Mod32(_, _)
Mod32(digits, acc) ==
    IF digits = << >> THEN acc
    ELSE CHOOSE r \in
            {Mod32(Tail(digits), <<t % (2^16), (v[2] * 10 + t \div (2^16)) % (2^16)>>) :
                v \in {acc}, t \in {acc[1] * 10 + digits[1]}} : TRUE

\* (a + b) modulo 2^32 on two such values.
Add32(a, b) == <<(a[1] + b[1]) % (2^16), (a[2] + b[2] + (a[1] + b[1]) \div (2^16)) % (2^16)>>

\* r is a number of 0..2^32-1 in that form.
Is32(r) == Len(r) = 2 /\ r[1] \in 0..(2^16 - 1) /\ r[2] \in 0..(2^16 - 1)

\* The interface updater serves.
IfServing == updater = "if" /\ phase = "serving"

\* The cached counter row of a physical-port SubID.
CachedRow(s) == if_updater.if_counters[if_updater.oid_sai_map[s]]

\* The members the updater holds for a LAG SubID.
LagMembers(s) == if_updater.lag_name_if_name_map[if_updater.oid_lag_name_map[s]]

\* A LAG member that is a port of the updater whose cached row holds the field.
Counted(m) ==
    /\ get_index(m) # None
    /\ get_index(m)[1] \in DOMAIN if_updater.oid_sai_map
    /\ IN_OCTETS \in DOMAIN CachedRow(get_index(m)[1])

\* The sum modulo 2^32 of the members' counters, each modulo 2^32.
RECURSIVE SumMod32(_)
SumMod32(members) ==
    IF members = << >> THEN <<0, 0>>
    ELSE Add32(Mod32(CachedRow(get_index(members[1])[1])[IN_OCTETS], <<0, 0>>),
               SumMod32(Tail(members)))

\* C11: for every physical-port SubID whose cached counter row holds the field,
\* get_counter returns the stored counter modulo 2^32, a number of 0..2^32-1.
C11_PortCounterMod32 ==
    IfServing =>
        \A s \in DOMAIN if_updater.oid_sai_map :
            IN_OCTETS \in DOMAIN CachedRow(s) =>
                /\ IfCounter(s) = Return(Some(Mod32(CachedRow(s)[IN_OCTETS], <<0, 0>>)))
                /\ Is32(IfCounter(s).val[1])

\* C11 witness: a port's cached counter is 2^32 + 7 and get_counter answers 7.
C11_Witness ==
    /\ IfServing
    /\ \E s \in DOMAIN if_updater.oid_sai_map :
          /\ IN_OCTETS \in DOMAIN CachedRow(s)
          /\ CachedRow(s)[IN_OCTETS] = <<4, 2, 9, 4, 9, 6, 7, 3, 0, 3>>
          /\ IfCounter(s) = Return(Some(<<7, 0>>))

\* C12: for every LAG SubID whose members all have a counter, get_counter returns
\* the sum modulo 2^32 of the members' counters, each taken modulo 2^32; a LAG
\* with no members reports 0; the result is a number of 0..2^32-1.
C12_LagCounterSumMod32 ==
    IfServing =>
        \A s \in DOMAIN if_updater.oid_lag_name_map :
            (\A i \in DOMAIN LagMembers(s) : Counted(LagMembers(s)[i])) =>
                /\ IfCounter(s) = Return(Some(SumMod32(LagMembers(s))))
                /\ Is32(IfCounter(s).val[1])
                /\ LagMembers(s) = << >> => IfCounter(s) = Return(Some(<<0, 0>>))

\* C12 witness: a LAG of two members whose counters 2^32 - 1 and 5 add up past
\* 2^32, reported as 4.
C12_Witness ==
    /\ IfServing
    /\ \E s \in DOMAIN if_updater.oid_lag_name_map :
          /\ Len(LagMembers(s)) = 2
          /\ \A i \in DOMAIN LagMembers(s) : Counted(LagMembers(s)[i])
          /\ {CachedRow(get_index(LagMembers(s)[i])[1])[IN_OCTETS] : i \in DOMAIN LagMembers(s)}
                = {<<5>>, <<4, 2, 9, 4, 9, 6, 7, 2, 9, 5>>}
          /\ IfCounter(s) = Return(Some(<<4, 0>>))

\* The updater as it would be had update_data read the COUNTERS rows the store
\* holds now.
StoreView ==
    [if_updater EXCEPT !.if_counters =
        [sai_id \in DOMAIN if_updater.if_id_map |-> COUNTERS_DB.COUNTERS[sai_id]]]

\* The LAG's counter computed from the members' rows in the store.
LagFromStore(s) == get_counter(StoreView, Some(s), IN_OCTETS)

C14_MissingCounterIsNone ==
    IfServing =>
        \A s \in DOMAIN if_updater.oid_sai_map :
            IN_OCTETS \notin DOMAIN CachedRow(s) => IfCounter(s) = Return(None)

C14_Witness ==
    /\ IfServing
    /\ \E s \in DOMAIN if_updater.oid_sai_map :
          /\ CachedRow(s) = EmptyDict
          /\ COUNTERS_DB.COUNTERS[if_updater.oid_sai_map[s]] = EmptyDict
          /\ IfCounter(s) = Return(None)

\* C15: get_counter returns normally for every index of the interface range, a
\* LAG with a member that lacks the counter or the index-map entry included.
C15_CounterNeverRaises ==
    IfServing => \A s \in get_if_range(if_updater) : IfCounter(s).exc = "none"

\* The status the specification gives for a row's optional status field.
StatusOf(field) == IF field = Some("up") THEN 1 ELSE 2

\* C16: get_admin_status and get_oper_status return 1 when the row's field is
\* "up" and 2 when it is "down", another value or missing; never anything else.
C16_StatusUpOrDown ==
    IfServing =>
        \A s \in get_if_range(if_updater) :
            LET entry == get_if_entry(if_updater, APPL_DB, s)
            IN  entry.exc = "none" =>
                  /\ get_admin_status(if_updater, APPL_DB, s) = Return(StatusOf(entry.val.admin_status))
                  /\ get_oper_status(if_updater, APPL_DB, s) = Return(StatusOf(entry.val.oper_status))
                  /\ get_admin_status(if_updater, APPL_DB, s).val \in {1, 2}
                  /\ get_oper_status(if_updater, APPL_DB, s).val \in {1, 2}

C16_Witness ==
    /\ IfServing
    /\ \E s \in get_if_range(if_updater) :
          LET entry == get_if_entry(if_updater, APPL_DB, s)
          IN  /\ entry.exc = "none"
              /\ entry.val.admin_status = Some("testing")
              /\ entry.val.oper_status = Some("up")
              /\ get_admin_status(if_updater, APPL_DB, s) = Return(2)
              /\ get_oper_status(if_updater, APPL_DB, s) = Return(1)

----------------------------------------------------------------------------
(* PSU status (PowerStatusHandler).                                        *)

PsuServing == updater = "psu" /\ phase = "serving"

\* The PSU count the chassis row states; 0 when the row does not state one.
PsuCount ==
    IF STATE_DB.chassis.psu_num = None THEN 0 ELSE DecimalValue(STATE_DB.chassis.psu_num[1], 0)

\* sub_id is (i) with 1 <= i <= PSU count.
PsuIndexed(sub_id) == Len(sub_id) = 1 /\ sub_id[1] \in 1..PsuCount

PsuPresent(i) == STATE_DB.psu[i].presence = Some("true")

PsuOk(i) == STATE_DB.psu[i].status = Some("true")

\* The status the specification gives for sub_id.
PsuStatusOf(sub_id) ==
    IF ~PsuIndexed(sub_id) THEN None
    ELSE IF ~PsuPresent(sub_id[1]) THEN Some(8)
    ELSE IF PsuOk(sub_id[1]) THEN Some(2)
    ELSE Some(7)

\* A read that getPsuStatus(sub_id) makes raises: the count, the presence of an
\* indexed PSU, or the status of a present one.
PsuReadRaises(sub_id) ==
    /\ Len(sub_id) = 1
    /\ \/ 1 \in statedb_fault
       \/ PsuIndexed(sub_id) /\ 2 \in statedb_fault
       \/ PsuIndexed(sub_id) /\ PsuPresent(sub_id[1]) /\ 3 \in statedb_fault

C18_NoStoreFailureEscapes ==
    (updater = "psu" /\ phase # "uninit") =>
        /\ phase = "serving"
        /\ \A sub_id \in PsuProbes :
              /\ PsuGetNext(STATE_DB, statedb_fault, sub_id).exc = "none"
              /\ getPsuStatus(STATE_DB, statedb_fault, sub_id).exc = "none"
              /\ PsuReadRaises(sub_id) =>
                    getPsuStatus(STATE_DB, statedb_fault, sub_id) = Return(None)

C18_Witness ==
    /\ PsuServing
    /\ psu_query.op = "getPsuStatus" /\ psu_query.sub_id = <<1>>
    /\ statedb_fault = {3}
    /\ PsuIndexed(<<1>>) /\ PsuPresent(1) /\ PsuOk(1)
    /\ psu_query.reply = Return(None)

\* The PSU data is unavailable: the store fails at every read, or the chassis row
\* states no count or a count of 0.
PsuUnavailable == statedb_fault = PsuReads \/ PsuCount = 0

\* C19: when the PSU data is unavailable the subtree is empty: get_next and
\* getPsuStatus return None for every SubID, the empty one included.
C19_UnavailableIsEmpty ==
    (PsuServing /\ PsuUnavailable) =>
        \A sub_id \in PsuProbes :
            /\ PsuGetNext(STATE_DB, statedb_fault, sub_id) = Return(None)
            /\ getPsuStatus(STATE_DB, statedb_fault, sub_id) = Return(None)

----------------------------------------------------------------------------
(* Transceiver sub-identifiers.                                            *)

\* The sensor keys of lanes 1..4, by kind.
RxPowerKeys == <<"rx1power", "rx2power", "rx3power", "rx4power">>
TxBiasKeys == <<"tx1bias", "tx2bias", "tx3bias", "tx4bias">>
TxPowerKeys == <<"tx1power", "tx2power", "tx3power", "tx4power">>

\* C20: for every interface index x the transceiver's sub-identifier is
\* (x * 1000) and a sensor's is (x * 1000 + part_id), part_id being 1 for the
\* temperature, 2 for the voltage, and lane * 10 + 1, + 2, + 3 for the rx power,
\* tx bias and tx power of lanes 1..4.
C20_TransceiverSubIds ==
    updater = "xcvr" =>
        \A x \in 1..MaxIfIndex :
            /\ get_transceiver_sub_id(x) = <<x * 1000>>
            /\ get_transceiver_sensor_sub_id(x, "temperature") = Return(<<x * 1000 + 1>>)
            /\ get_transceiver_sensor_sub_id(x, "voltage") = Return(<<x * 1000 + 2>>)
            /\ \A lane \in 1..4 :
                  /\ get_transceiver_sensor_sub_id(x, RxPowerKeys[lane])
                        = Return(<<x * 1000 + lane * 10 + 1>>)
                  /\ get_transceiver_sensor_sub_id(x, TxBiasKeys[lane])
                        = Return(<<x * 1000 + lane * 10 + 2>>)
                  /\ get_transceiver_sensor_sub_id(x, TxPowerKeys[lane])
                        = Return(<<x * 1000 + lane * 10 + 3>>)

C20_Witness ==
    /\ updater = "xcvr"
    /\ xcvr_query.ifindex = 3 /\ xcvr_query.sensor = "tx4power"
    /\ xcvr_query.sub_id = <<3000>>
    /\ xcvr_query.sensor_sub_id = Return(<<3043>>)

----------------------------------------------------------------------------
(* Namespace loaders.                                                      *)

\* The positions of db_conn the loaders read: the only connection, or every
\* connection after the first.
NonHost == IF Len(db_conn) = 1 THEN {1} ELSE 2..Len(db_conn)

\* The port names of a connection that match a front-panel or backplane pattern.
MatchingPorts(c) ==
    {n \in DOMAIN c.COUNTERS_DB.COUNTERS_PORT_NAME_MAP : n.pfx \in {"Ethernet", "Ethernet-BP"}}

\* C21: when no port name of the scanned table matches the front-panel or
\* backplane patterns (the empty table included), init_sync_d_interface_tables
\* raises RuntimeError and returns no maps; over several namespaces the
\* aggregated loader raises as soon as one non-primary namespace has no
\* matching port.
C21_NoMatchingPortIsFatal ==
    /\ \A i \in DOMAIN db_conn :
          MatchingPorts(db_conn[i]) = {} =>
             init_sync_d_interface_tables(db_conn[i].COUNTERS_DB, db_conn[i].APPL_DB)
                = Raise("RuntimeError", None)
    /\ (/\ ns_query.op = "init_namespace_sync_d_interface_tables"
        /\ \E i \in NonHost : MatchingPorts(db_conn[i]) = {})
       => ns_query.result = Raise("RuntimeError", None)

\* The aggregated loader has failed over a primary namespace with ports, a
\* namespace with ports and one whose only port is the CPU port.
C21_Witness ==
    /\ ns_query.op = "init_namespace_sync_d_interface_tables"
    /\ ns_query.result.exc = "RuntimeError"
    /\ Len(db_conn) = 3
    /\ MatchingPorts(db_conn[1]) # {}
    /\ MatchingPorts(db_conn[2]) # {}
    /\ DOMAIN db_conn[3].COUNTERS_DB.COUNTERS_PORT_NAME_MAP = {Cpu}

\* The names a record of interface maps mentions, as key or as value.
NamesIn(tables) ==
    DOMAIN tables.if_name_map \cup DOMAIN tables.if_alias_map
       \cup {tables.if_id_map[i] : i \in DOMAIN tables.if_id_map}
       \cup {tables.oid_name_map[o] : o \in DOMAIN tables.oid_name_map}

\* C22: when the scanned port table has a name that matches the patterns and
\* one that does not, init_sync_d_interface_tables returns normally, the entries
\* of the names that do not match are in none of the returned maps, and the
\* warning about the inconsistency is logged.
C22_MixedTableWarns ==
    \A i \in DOMAIN db_conn :
       LET names == DOMAIN db_conn[i].COUNTERS_DB.COUNTERS_PORT_NAME_MAP
           tables == init_sync_d_interface_tables(db_conn[i].COUNTERS_DB, db_conn[i].APPL_DB)
       IN  (MatchingPorts(db_conn[i]) # {} /\ names \ MatchingPorts(db_conn[i]) # {})
           => /\ tables.exc = "none"
              /\ NamesIn(tables.val) = MatchingPorts(db_conn[i])
              /\ {tables.val.oid_sai_map[o] : o \in DOMAIN tables.val.oid_sai_map}
                    = {Strip6(db_conn[i].COUNTERS_DB.COUNTERS_PORT_NAME_MAP[n]) :
                          n \in MatchingPorts(db_conn[i])}
              /\ InterfaceTablesWarn(tables.val)

\* init_sync_d_lag_tables on connection c when keys() answers a for its LAGs.
LagTablesOf(c, a) ==
    init_sync_d_lag_tables(c.APPL_DB, c.COUNTERS_DB,
                           [g \in DOMAIN a |-> IF a[g] = None THEN << >> ELSE a[g][1]])

\* The member lists are those of the member table: every LAG key has a list,
\* the list holds the names keys() answered, each once, and is empty when the
\* answer is None or empty; every listed member maps back to its LAG.
MemberListsOf(c, a, tables) ==
    /\ DOMAIN tables.lag_name_if_name_map = DOMAIN c.APPL_DB.LAG_TABLE
    /\ \A g \in DOMAIN c.APPL_DB.LAG_TABLE :
          LET list == tables.lag_name_if_name_map[g]
          IN  /\ Range(list) = c.APPL_DB.LAG_MEMBER_TABLE[g]
              /\ Len(list) = Cardinality(c.APPL_DB.LAG_MEMBER_TABLE[g])
              /\ a[g] \in {None, Some(<< >>)} => list = << >>
              /\ \A m \in Range(list) :
                    /\ m \in DOMAIN tables.if_name_lag_name_map
                    /\ tables.if_name_lag_name_map[m] = g

\* C23: init_sync_d_lag_tables returns a member list for every key of the LAG
\* table: the list holds exactly the member names found for that LAG, is empty
\* when the LAG has no members (also when the member scan answers None), and
\* every listed member maps back to the LAG in the reverse map.
C23_EveryLagHasMemberList ==
    \A i \in DOMAIN db_conn : \A a \in MemberAnswers(db_conn[i]) :
       /\ LagTablesOf(db_conn[i], a).exc = "none"
       /\ MemberListsOf(db_conn[i], a, LagTablesOf(db_conn[i], a).val)

\* The hash COUNTERS_LAG_NAME_MAP of a connection, None when the store has none.
LagNamesOf(c) ==
    IF "COUNTERS_LAG_NAME_MAP" \in DOMAIN c.COUNTERS_DB
    THEN Some(c.COUNTERS_DB.COUNTERS_LAG_NAME_MAP) ELSE None

\* C24: when the LAG name to external-id mapping cannot be obtained (the read
\* answers None, or a LAG has no entry in it) while LAG table keys exist,
\* init_sync_d_lag_tables still returns normally: the LAG is in the member map
\* and is absent from the external-id map.
C24_MissingLagIdIsTolerated ==
    \A i \in DOMAIN db_conn : \A a \in MemberAnswers(db_conn[i]) :
       LET c == db_conn[i]
           unnamed == {g \in DOMAIN c.APPL_DB.LAG_TABLE :
                          LagNamesOf(c) = None \/ g \notin DOMAIN LagNamesOf(c)[1]}
       IN  unnamed # {} =>
              /\ LagTablesOf(c, a).exc = "none"
              /\ \A g \in unnamed :
                    /\ g \in DOMAIN LagTablesOf(c, a).val.lag_name_if_name_map
                    /\ g \notin DOMAIN LagTablesOf(c, a).val.lag_sai_map

\* C25: for every LAG the external id in the LAG external-id map is the value
\* read from the store with exactly the leading "oid:0x" removed and every
\* character after it kept, whatever the identifier starts with.
C25_LagIdKeepsAllDigits ==
    \A i \in DOMAIN db_conn : \A a \in MemberAnswers(db_conn[i]) :
       LET c == db_conn[i]
       IN  (LagTablesOf(c, a).exc = "none" /\ DOMAIN c.APPL_DB.LAG_TABLE # {}) =>
              \A g \in DOMAIN LagNamesOf(c)[1] :
                 /\ g \in DOMAIN LagTablesOf(c, a).val.lag_sai_map
                 /\ LagTablesOf(c, a).val.lag_sai_map[g]
                       = SubSeq(LagNamesOf(c)[1][g], 7, Len(LagNamesOf(c)[1][g]))

\* The queue indexes of a port in ascending order.
Ascending(list) == \A j \in 1..(Len(list) - 1) : list[j] < list[j + 1]

NonHostKeys(f) == UNION {DOMAIN db_conn[i][f] : i \in NonHost}

\* The last connection the loaders read whose port name map has name n.
LastWith(n) ==
    CHOOSE i \in NonHost :
       /\ n \in DOMAIN db_conn[i].COUNTERS_DB.COUNTERS_PORT_NAME_MAP
       /\ \A j \in NonHost :
             n \in DOMAIN db_conn[j].COUNTERS_DB.COUNTERS_PORT_NAME_MAP => j <= i

\* C27: the interface, LAG, RIF, VLAN, queue and bridge-port loaders read every
\* connection but the first when there are several, and the single connection
\* when there is one: what they return is made of the contents of exactly those
\* connections, and nothing of the primary connection is in it.
C27_LoadersSkipPrimary ==
    LET r == ns_query.result
    IN  /\ ns_query.op = "init_namespace_sync_d_interface_tables" =>
              IF \E i \in NonHost : MatchingPorts(db_conn[i]) = {} THEN r.exc = "RuntimeError"
              ELSE /\ r.exc = "none"
                   /\ DOMAIN r.val.if_name_map = UNION {MatchingPorts(db_conn[i]) : i \in NonHost}
                   /\ \A n \in DOMAIN r.val.if_name_map :
                         r.val.if_name_map[n] =
                            Strip6(db_conn[LastWith(n)].COUNTERS_DB.COUNTERS_PORT_NAME_MAP[n])
        /\ (ns_query.op = "init_namespace_sync_d_lag_tables" /\ r.exc = "none") =>
              DOMAIN r.val.lag_name_if_name_map
                 = UNION {DOMAIN db_conn[i].APPL_DB.LAG_TABLE : i \in NonHost}
        /\ (ns_query.op = "init_namespace_sync_d_queue_tables" /\ r.exc = "none") =>
              {r.val.port_queues_map[k] : k \in DOMAIN r.val.port_queues_map}
                 = UNION {Range(db_conn[i].COUNTERS_DB.COUNTERS_QUEUE_NAME_MAP) : i \in NonHost}
        /\ ns_query.op = "init_namespace_sync_d_rif_tables" =>
              DOMAIN r.val.rif_port_map = NonHostKeys("rif_port_map")
        /\ ns_query.op = "init_namespace_sync_d_vlan_tables" =>
              DOMAIN r.val.vlan_name_map = NonHostKeys("vlan_name_map")
        /\ ns_query.op = "dbs_get_bridge_port_map" =>
              /\ DOMAIN r.val = NonHostKeys("if_br_oid_map")
              /\ \A b \in DOMAIN r.val : \E i \in NonHost :
                    b \in DOMAIN db_conn[i].if_br_oid_map /\ r.val[b] = db_conn[i].if_br_oid_map[b]

\* The interface loader has returned over three connections, and a port that
\* only the primary connection has is not in its maps.
C27_Witness ==
    /\ ns_query.op = "init_namespace_sync_d_interface_tables"
    /\ ns_query.result.exc = "none"
    /\ Len(db_conn) = 3
    /\ Eth8 \in MatchingPorts(db_conn[1])
    /\ Eth8 \notin DOMAIN ns_query.result.val.if_name_map
    /\ Eth0 \in DOMAIN ns_query.result.val.if_name_map

----------------------------------------------------------------------------
(* Namespace.dbs_keys and Namespace.dbs_get_all.                           *)

\* The connections that hold key k.
Holding(k) == {i \in DOMAIN db_conn : k \in DOMAIN db_conn[i].SNMP_OVERLAY_DB}

\* The connections that hold key k with field f.
HoldingField(k, f) == {i \in Holding(k) : f \in DOMAIN db_conn[i].SNMP_OVERLAY_DB[k]}

C29_LastWriterWins ==
    ns_query.op = "dbs_get_all" =>
       LET k == ns_query.arg
           merged == ns_query.result.val
       IN  /\ ns_query.result.exc = "none"
           /\ DOMAIN merged = UNION {DOMAIN db_conn[i].SNMP_OVERLAY_DB[k] : i \in Holding(k)}
           /\ \A f \in DOMAIN merged :
                 \E i \in HoldingField(k, f) :
                    /\ \A j \in HoldingField(k, f) : j <= i
                    /\ merged[f] = db_conn[i].SNMP_OVERLAY_DB[k][f]
           /\ Holding(k) = {} => merged = [f \in {} |-> 0]

\* A read over three connections: the first and the last hold the key with the
\* field "type" under different values, the one between does not hold the key.
C29_Witness ==
    /\ ns_query.op = "dbs_get_all"
    /\ Len(db_conn) = 3
    /\ Holding(ns_query.arg) = {1, 3}
    /\ HoldingField(ns_query.arg, "type") = {1, 3}
    /\ db_conn[1].SNMP_OVERLAY_DB[ns_query.arg].type
          # db_conn[3].SNMP_OVERLAY_DB[ns_query.arg].type
    /\ ns_query.result.val.type = db_conn[3].SNMP_OVERLAY_DB[ns_query.arg].type

\* C30: dbs_keys returns the union of the namespaces' keys as a set: a key is
\* in the result exactly when some namespace has it, and it is there once even
\* when several namespaces have it.
C30_KeysAreASet ==
    ns_query.op = "dbs_keys" =>
       /\ Range(ns_query.result.val) = {k \in {OidKey1, OidKey2} : Holding(k) # {}}
       /\ \A i, j \in DOMAIN ns_query.result.val :
             ns_query.result.val[i] = ns_query.result.val[j] => i = j

----------------------------------------------------------------------------
(* FdbUpdater: malformed and unresolved entries.                           *)

\* FdbUpdater.update_data has just returned or raised on the store as it is.
FdbRefreshed == updater = "fdb" /\ phase = "serving" /\ last = "update_data"

\* The FDB entries of the store that the maps of the updater resolve to a port:
\* the row has the bridge port attribute, the bridge port is in the bridge-port
\* map and its port id is in the interface identity map.
Resolvable ==
    {e \in ASIC_DB.fdb :
        /\ e.ent.SAI_FDB_ENTRY_ATTR_BRIDGE_PORT_ID # None
        /\ Strip6(e.ent.SAI_FDB_ENTRY_ATTR_BRIDGE_PORT_ID[1]) \in DOMAIN fdb_updater.if_bpid_map
        /\ fdb_updater.if_bpid_map[Strip6(e.ent.SAI_FDB_ENTRY_ATTR_BRIDGE_PORT_ID[1])]
              \in DOMAIN fdb_updater.if_id_map}

\* C31: an FDB key whose JSON part cannot be decoded is skipped and the refresh
\* goes on with the remaining keys: after a refresh that returned, every
\* well-formed FDB entry of the store is in the snapshot, wherever the malformed
\* key fell in the enumeration.
C31_MalformedKeySkipped ==
    (FdbRefreshed /\ outcome = "ok") =>
        \A e \in ASIC_DB.fdb :
           e.key.json_ok => fdb_vlanmac(e.key) \in DOMAIN fdb_updater.vlanmac_ifindex_map

\* C32: an FDB entry that cannot be resolved to a port is skipped: the refresh
\* returns without raising and every resolvable entry is in the snapshot. The
\* stores looked at hold well-formed keys only.
C32_UnresolvedEntrySkipped ==
    (FdbRefreshed /\ \A e \in ASIC_DB.fdb : e.key.json_ok) =>
        /\ outcome = "ok"
        /\ \A e \in Resolvable :
              fdb_vlanmac(e.key) \in DOMAIN fdb_updater.vlanmac_ifindex_map

----------------------------------------------------------------------------
(* PowerStatusHandler.get_next.                                            *)

\* The smallest (i) with 1 <= i <= PSU count that is lexicographically greater
\* than sub_id, None when there is none: (i) is greater than the empty SubID for
\* every i, and greater than (k) or (k, j) exactly when i > k.
PsuSuccessor(sub_id) ==
    LET i == IF sub_id = << >> THEN 1 ELSE IF sub_id[1] < 1 THEN 1 ELSE sub_id[1] + 1
    IN  IF i \in 1..PsuCount THEN Some(<<i>>) ELSE None

\* C36: while the store answers, get_next returns for every SubID s the smallest
\* (i) with 1 <= i <= PSU count that is lexicographically greater than s, or
\* None; so get_next((0)) is (1) and get_next((k, j)) is (k + 1) when k + 1 is
\* an index.
C36_PsuGetNextIsSuccessor ==
    (PsuServing /\ statedb_fault = {}) =>
        \A sub_id \in PsuProbes :
            PsuGetNext(STATE_DB, statedb_fault, sub_id) = Return(PsuSuccessor(sub_id))

----------------------------------------------------------------------------
(* RedisOidTreeUpdater.update_data: oid_list against oid_map.              *)

OverlayRefreshed == updater = "overlay" /\ phase = "serving" /\ last = "update_data"

\* Non-decreasing in the order of Python's tuple comparison.
SortedAscending(list) ==
    \A j \in 1..(Len(list) - 1) : ~TupleLess(list[j + 1], list[j])

\* C37: after every call of update_data, returned or raised, oid_list is sorted
\* ascending and holds exactly the keys of oid_map.
C37_ListMatchesMap ==
    OverlayRefreshed =>
        /\ SortedAscending(overlay_updater.oid_list[1])
        /\ Range(overlay_updater.oid_list[1]) = DOMAIN overlay_updater.oid_map[1]

----------------------------------------------------------------------------
(* FdbUpdater.reinit_data: the sets of what was already warned about.      *)

FdbReinitDone == updater = "fdb" /\ phase = "serving" /\ last = "reinit_data"

\* C33: while the interface identity set and the bridge-port table stay as they
\* are, the warning for a bridge port without the port id attribute is logged at
\* most once: after a reinit, with the store as that reinit read it, the next
\* reinit logs no warning for a bridge port the reinit just done has warned
\* about (it put those in invalid_if_bpid).
C33_BridgePortWarnedOnce ==
    FdbReinitDone =>
        BridgePortWarnings(COUNTERS_DB, APPL_DB, ASIC_DB) \cap fdb_updater.invalid_if_bpid = {}

\* C34: a reinit (the constructor's included) sets invalid_port_oids to the
\* empty set, and remembers the map, exactly when the external-id to name map it
\* loaded differs from the remembered one; when the map is equal the set and
\* the remembered map are left as they were.
C34_WarnedPortsResetOnChange ==
    [][(updater = "fdb" /\ last' \in {"__init__", "reinit_data"}) =>
         IF fdb_updater.prev_if_id_map # fdb_updater'.if_id_map
         THEN /\ fdb_updater'.invalid_port_oids = Some({})
              /\ fdb_updater'.prev_if_id_map = fdb_updater'.if_id_map
         ELSE /\ fdb_updater'.invalid_port_oids = fdb_updater.invalid_port_oids
              /\ fdb_updater'.prev_if_id_map = fdb_updater.prev_if_id_map]_vars

\* A reinit of the refresh loop has loaded a map and holds the emptied set.
C34_Witness ==
    /\ FdbReinitDone
    /\ fdb_updater.if_id_map # EmptyDict
    /\ fdb_updater.prev_if_id_map = fdb_updater.if_id_map
    /\ fdb_updater.invalid_port_oids = Some({})

----------------------------------------------------------------------------
(* FdbUpdater.fdb_ifindex.                                                 *)

\* The interface index of the port an FDB entry is learnt on: bridge port id ->
\* port id -> canonical name -> index.
PortIndexOf(e) ==
    get_index(fdb_updater.if_id_map[
                  fdb_updater.if_bpid_map[Strip6(e.ent.SAI_FDB_ENTRY_ATTR_BRIDGE_PORT_ID[1])]])

\* C35: after a refresh, for every FDB entry of the store whose bridge port
\* resolves to a known port, fdb_ifindex of (vlan, the six MAC bytes) is the
\* interface index of that port, an integer, which is what a GET answers as
\* INTEGER.
C35_FdbIfindexIsPortIndex ==
    FdbRefreshed =>
        \A e \in Resolvable :
            e.key.json_ok =>
                LET ifindex == fdb_ifindex(fdb_updater, fdb_vlanmac(e.key))
                IN  /\ ifindex # None
                    /\ ifindex[1] \in Nat
                    /\ ifindex = PortIndexOf(e)

====
